---- MODULE Spec2Model ----
(***************************************************************************)
(* Model of the session-lifecycle engine of UCI-ClusterManager:            *)
(*   - the marker-delimited blocks VSCodeManager keeps in ~/.ssh/config    *)
(*     (_add_ssh_config_to_local / _remove_ssh_config_from_local),         *)
(*   - the per-job polling thread (poll_job) and cancel_job,               *)
(*   - execute_ssh_command / connect_ssh of VSCodeManager and of           *)
(*     NodeStatusManager.                                                  *)
(*                                                                         *)
(* Three specifications share the module:                                  *)
(*   SpecFile  the two file operations applied to bounded file contents,   *)
(*   Spec      one manager, its monitor threads and the caller's thread,   *)
(*   SpecChan  threads calling execute_ssh_command on one manager.         *)
(***************************************************************************)
EXTENDS Integers, Sequences, FiniteSets, TLC

\* ------------------------------------------------------------------ bounds
\* job ids handed out by the scheduler are 1..MaxJobs
MaxJobs == 2
\* compute nodes a session can be resolved to are 1..MaxNodes
MaxNodes == 2
\* length of the user-authored text around the blocks in an initial file
MaxUserLen == 2
\* number of file operations applied in SpecFile
MaxOps == 3
\* loop iterations of all monitors together that are explored (the code's
\* own limit, per monitor, is PollLimit)
MaxPolls == 3

\* poll_job leaves its loop once poll_count exceeds this
PollLimit == 180

\* threads that call execute_ssh_command / connect_ssh on one manager
MaxThreads == 2

\* paramiko.SSHClient objects one manager creates in SpecConn
MaxClients == 3

JobIds == 1..MaxJobs
Threads == 1..MaxThreads

\* ------------------------------------------------------- file content
\* The config file is a sequence of tokens.  A token is a maximal piece of
\* text that the code's regular expressions and strip()/rstrip() treat as a
\* unit: a line break, a piece of user text (no white space at either end),
\* a begin marker, an end marker, and the two Host entries of a block.
Tok(k, j, h) == [k |-> k, j |-> j, h |-> h]
NL == Tok("NL", 0, 0)
USR == Tok("U", 0, 0)
BeginMarker(j) == Tok("B", j, 0)

IsSpace(t) == t.k = "NL"

\* The pattern of _remove_ssh_config_from_local names one job id; the one of
\* _add_ssh_config_to_local has ".*?" in the place of the job id.
AnyJob == 0

SeqFrom(s, i) == SubSeq(s, i, Len(s))

\* str.rstrip(): drop the trailing white space
RECURSIVE rstrip(_)
rstrip(s) ==
    IF s = <<>> THEN <<>>
    ELSE IF IsSpace(s[Len(s)]) THEN rstrip(SubSeq(s, 1, Len(s) - 1))
    ELSE s

\* str.strip() is only used for its truth value: is anything left?
strip_nonempty(s) == \E i \in 1..Len(s) : ~IsSpace(s[i])

\* the text written for one job: new_config of _add_ssh_config_to_local
new_config(j, h) ==
    << NL, BeginMarker(j), NL, NL, Tok("J", j, 0), NL, NL, NL,
       Tok("T", j, h), NL, Tok("E", j, 0), NL >>

MatchesId(t, jid) == jid = AnyJob \/ t.j = jid

\* positions where the pattern BEGIN(jid) .*? END(jid) can start: a begin
\* marker with an end marker somewhere after it (re.DOTALL: anything between)
MatchStarts(s, jid) ==
    { i \in 1..Len(s) :
        /\ s[i].k = "B" /\ MatchesId(s[i], jid)
        /\ \E e \in (i + 1)..Len(s) : s[e].k = "E" /\ MatchesId(s[e], jid) }

Min(S) == CHOOSE x \in S : \A y \in S : x <= y

\* non-greedy: the match ends at the first end marker after its start
MatchEnd(s, i, jid) ==
    Min({ e \in (i + 1)..Len(s) : s[e].k = "E" /\ MatchesId(s[e], jid) })

\* pattern.search(existing_config)
pattern_search(s, jid) == MatchStarts(s, jid) # {}

\* pattern.sub('', existing_config): every non-overlapping match, leftmost
\* first, is replaced by the empty string
RECURSIVE pattern_sub(_, _)
pattern_sub(s, jid) ==
    IF MatchStarts(s, jid) = {} THEN s
    ELSE LET i == Min(MatchStarts(s, jid))
             e == MatchEnd(s, i, jid)
         IN  SubSeq(s, 1, i - 1) \o pattern_sub(SeqFrom(s, e + 1), jid)

\* the add pattern with a marker text that no block carries (the slip of
\* VSCodeWidget.clean_old_ssh_config): it strips nothing
AddPatternId_WrongMarker(j) == MaxJobs + 1

\* the job ids the add pattern strips: the jobs whose blocks are removed
\* before the new block is appended
AddPatternId(j) == AnyJob

\* _add_ssh_config_to_local without the pattern.sub('', existing_config)
\* line: the new block is appended to whatever the file held
AddWrite_NoStrip(existing, j, h) ==
    (IF strip_nonempty(existing) THEN rstrip(existing) \o <<NL>> ELSE <<>>)
    \o new_config(j, h)

\* what _add_ssh_config_to_local writes, given the content it read
AddWrite(existing, j, h) ==
    LET stripped == pattern_sub(existing, AddPatternId(j))
    IN  (IF strip_nonempty(stripped) THEN rstrip(stripped) \o <<NL>> ELSE <<>>)
        \o new_config(j, h)

\* what _remove_ssh_config_from_local writes when the pattern matched
RemoveWrite(existing, j) == pattern_sub(existing, j)

\* ------------------------------------------------ reading the file back
\* number of begin markers of job j: the blocks the file holds for j
BlockCount(s, j) == Cardinality({ i \in 1..Len(s) : s[i] = BeginMarker(j) })

\* the text of the first block of job j, markers included (<<>> if none)
BlockText(s, j) ==
    IF MatchStarts(s, j) = {} THEN <<>>
    ELSE LET i == Min(MatchStarts(s, j))
         IN  SubSeq(s, i, MatchEnd(s, i, j))

HasBlock(s, j) == BlockCount(s, j) > 0

\* ------------------------------------------------------------ variables
VARIABLES
    \* ~/.ssh/config: does it exist, and its content
    config_exists, config_file,
    \* SpecFile: the file before the last operation, the last two operations
    \* and how many were applied
    prev_file, last_op, prev_op, n_ops,
    \* the scheduler's state of each job id ("NONE": id not handed out)
    sched,
    \* VSCodeManager.config_written_jobs and VSCodeManager.current_job
    config_written_jobs, current_job,
    \* the poll_job thread of each job id and the caller's thread (with the
    \* call it is in, and what that call returns once it is at "return")
    mon, caller,
    \* what the manager's signals have carried so far, per job id:
    \* vscode_job_status_updated, vscode_config_ready
    status_events, ready_count,
    \* SpecChan: the manager class under test, its mutex (0: free, else the
    \* holding thread), its cached client and the calling threads
    cls, lock, ssh_client, th,
    \* SpecBudget: the one monitor thread whose whole run is followed
    bud,
    \* SpecWidget: the submit_job slot of the GUI's VSCodeWidget
    wid,
    \* SpecConn: self._ssh_client, the client objects made so far with their
    \* transports, and the threads inside connect_ssh
    conn,
    \* the function specifications: the call under test, with its inputs,
    \* its position and what it returns
    fn

fileVars == << config_exists, config_file >>
histVars == << prev_file, last_op, prev_op, n_ops >>
mgrVars == << sched, config_written_jobs, current_job, mon, caller,
              status_events, ready_count >>
chanVars == << cls, lock, ssh_client, th >>
\* the variables the manager specification Spec leaves alone
offVars == << histVars, chanVars, bud, wid, conn, fn >>
\* ... and those SpecChan, SpecBudget, SpecWidget, SpecConn and the
\* function specifications leave alone
chanOff == << fileVars, histVars, mgrVars, bud, wid, conn, fn >>
budOff == << histVars, chanVars, wid, conn, fn >>
widOff == << fileVars, histVars, mgrVars, bud, conn, fn, cls, lock, th >>
connOff == << fileVars, histVars, mgrVars, bud, wid, fn, ssh_client, th >>
fnOff == << fileVars, histVars, mgrVars, chanVars, bud, wid, conn >>
vars == << fileVars, histVars, mgrVars, chanVars, bud, wid, conn, fn >>

NoOp == [op |-> "none", j |-> 0, h |-> 0, removed |-> FALSE]

\* ------------------------------------------------ manager state, unused
None == "None"
Terminal == { "COMPLETED", "FAILED", "CANCELLED", "TIMEOUT" }
Live == { "PENDING", "RUNNING" }

\* the status events kept per job: the last two that were emitted
Emit(evs, st) == IF Len(evs) < 2 THEN Append(evs, st) ELSE << evs[2], st >>

\* failed: _parse_vscode_config has returned None in this monitor
NoMon == [pc |-> "none", status |-> None, host |-> 0, snap |-> <<>>, poll_count |-> 0,
          failed |-> FALSE]
\* remote: the call has tried to connect or to run a remote command;
\* submitted: the job id vscode_job_submitted carried during the call
IdleCaller == [pc |-> "idle", op |-> "none", job |-> 0, snap |-> <<>>,
               ret |-> None, removed |-> FALSE, remote |-> FALSE,
               submitted |-> 0]

\* VSCodeManager.__init__, before any job was submitted
MgrIdle ==
    /\ sched = [j \in JobIds |-> "NONE"]
    /\ config_written_jobs = {}
    /\ current_job = 0
    /\ mon = [j \in JobIds |-> NoMon]
    /\ caller = IdleCaller
    /\ status_events = [j \in JobIds |-> <<>>]
    /\ ready_count = [j \in JobIds |-> 0]

\* a thread outside execute_ssh_command / connect_ssh.  Of its last
\* execute_ssh_command call it keeps: result (the returned output, or
\* "raised"), runs (how often exec_command was issued), reconn (how often
\* the except clause called connect_ssh), out / err (what stdout.read() and
\* stderr.read() gave; None if they were not read)
NoThread == [pc |-> "idle", ret_to |-> "idle", result |-> None,
             runs |-> 0, reconn |-> 0, out |-> None, err |-> None]

ChanIdle ==
    /\ cls = "VSCodeManager"
    /\ lock = 0
    /\ ssh_client = "inactive"
    /\ th = [t \in Threads |-> NoThread]

\* no monitor thread is followed
NoBud == [kind |-> "none", pc |-> "none", poll_count |-> 0, polls |-> 0,
          status |-> None, event |-> None, elapsed |-> 0]

BudIdle == bud = NoBud

\* the form of the widget, with no submit_job under way
IdleWid == [pc |-> "idle", account |-> "", gpu_type |-> None, job |-> 0,
            remote |-> 0, outcome |-> None]

WidIdle == wid = IdleWid

Clients == 1..MaxClients

\* no client object yet, no thread in connect_ssh.  ref: the client
\* self._ssh_client refers to (0: None); made: the clients created so far;
\* tr: the transport each client holds ("none", "live", "dead", "closed");
\* orphans: live transports no client holds any more; pc: where each thread
\* is
NoConn == [ref |-> 0, made |-> 0, tr |-> [c \in Clients |-> "none"],
           orphans |-> 0, pc |-> [t \in Threads |-> "idle"]]

ConnIdle == conn = NoConn

\* no function call under test
FnIdle == fn = [f |-> "none"]

HistIdle ==
    /\ prev_file = [exists |-> FALSE, text |-> <<>>]
    /\ last_op = NoOp
    /\ prev_op = NoOp
    /\ n_ops = 0

\* ------------------------------------------------- the file operations
\* _add_ssh_config_to_local(job_id, config), run without interruption:
\* read the file if it exists, strip, append, write
add_ssh_config_to_local(j, h) ==
    /\ config_file' = AddWrite(IF config_exists THEN config_file ELSE <<>>, j, h)
    /\ config_exists' = TRUE

\* _remove_ssh_config_from_local with the pattern of the add operation,
\* which names no job id
remove_ssh_config_from_local_AnyJob(j, removed) ==
    IF config_exists /\ pattern_search(config_file, AnyJob)
    THEN /\ config_file' = RemoveWrite(config_file, AnyJob)
         /\ removed = TRUE
         /\ UNCHANGED config_exists
    ELSE /\ removed = FALSE
         /\ UNCHANGED << config_exists, config_file >>

\* _remove_ssh_config_from_local(job_id), run without interruption; removed
\* tells whether ssh_config_removed was emitted
remove_ssh_config_from_local(j, removed) ==
    IF config_exists /\ pattern_search(config_file, j)
    THEN /\ config_file' = RemoveWrite(config_file, j)
         /\ removed = TRUE
         /\ UNCHANGED config_exists
    ELSE /\ removed = FALSE
         /\ UNCHANGED << config_exists, config_file >>

\* ------------------------------------------------------------- SpecFile
\* user-authored text of at most n tokens
RECURSIVE UserTexts(_)
UserTexts(n) ==
    IF n = 0 THEN { <<>> }
    ELSE UserTexts(n - 1) \cup
         { Append(u, t) : u \in { x \in UserTexts(n - 1) : Len(x) = n - 1 },
                          t \in { USR, NL } }

\* a file the user may have before the operations start: user text, maybe
\* with one block written earlier in between
InitFile ==
    /\ config_exists \in BOOLEAN
    /\ config_file \in
         { u1 \o b \o u2 :
             u1 \in UserTexts(MaxUserLen), u2 \in UserTexts(MaxUserLen),
             b \in { <<>> } \cup { new_config(j, h) : j \in JobIds, h \in 1..MaxNodes } }
    /\ ~config_exists => config_file = <<>>
    /\ prev_file = [exists |-> config_exists, text |-> config_file]
    /\ last_op = NoOp
    /\ prev_op = NoOp
    /\ n_ops = 0
    /\ MgrIdle
    /\ ChanIdle
    /\ BudIdle
    /\ WidIdle
    /\ ConnIdle
    /\ FnIdle

Record(op) ==
    /\ n_ops < MaxOps
    /\ n_ops' = n_ops + 1
    /\ prev_file' = [exists |-> config_exists, text |-> config_file]
    /\ prev_op' = last_op
    /\ last_op' = op
    /\ UNCHANGED << mgrVars, chanVars, bud, wid, conn, fn >>

Upsert(j, h) ==
    /\ add_ssh_config_to_local(j, h)
    /\ Record([op |-> "upsert", j |-> j, h |-> h, removed |-> FALSE])

Remove(j) ==
    \E removed \in BOOLEAN :
        /\ remove_ssh_config_from_local(j, removed)
        /\ Record([op |-> "remove", j |-> j, h |-> 0, removed |-> removed])

NextFile ==
    \/ \E j \in JobIds, h \in 1..MaxNodes : Upsert(j, h)
    \/ \E j \in JobIds : Remove(j)

SpecFile == InitFile /\ [][NextFile]_vars

\* ------------------------------------------------------------------ Spec
\* One VSCodeManager: the caller's thread runs submit_vscode_job and
\* cancel_job, each submitted job has its own poll_job thread, and the
\* scheduler moves the jobs on its own.

\* --- the scheduler (outside the program; its answers are the inputs)
SchedRun(j) ==
    /\ sched[j] = "PENDING"
    /\ sched' = [sched EXCEPT ![j] = "RUNNING"]
    /\ UNCHANGED << fileVars, offVars, config_written_jobs, current_job, mon,
                    caller, status_events, ready_count >>

SchedEnd(j) ==
    /\ sched[j] = "RUNNING"
    /\ \E t \in { "COMPLETED", "FAILED", "TIMEOUT" } :
           sched' = [sched EXCEPT ![j] = t]
    /\ UNCHANGED << fileVars, offVars, config_written_jobs, current_job, mon,
                    caller, status_events, ready_count >>

\* a running job put back in the queue (preemption, scontrol requeue)
SchedRequeue(j) ==
    /\ sched[j] = "RUNNING"
    /\ sched' = [sched EXCEPT ![j] = "PENDING"]
    /\ UNCHANGED << fileVars, offVars, config_written_jobs, current_job, mon,
                    caller, status_events, ready_count >>

\* --- get_job_status(job_id)
\* The values get_job_status can return for job j: None when the connection
\* or a command fails; the state of the squeue row while the job is listed;
\* for a job that is no longer listed the state of the sacct row, or
\* CANCELLED when sacct has nothing either.
get_job_status(j) ==
    IF sched[j] \in Live THEN { None, sched[j] }
    ELSE { None, sched[j], "CANCELLED" }

\* --- poll_job, one thread per job id
\* the exit test with the limit one too high
BudgetExceeded_OffByOne(poll_count) == poll_count > PollLimit + 1

\* "if poll_count > 180: ... break", tested after the increment and the sleep
BudgetExceeded(poll_count) == poll_count > PollLimit

RECURSIVE SumUpTo(_, _)
SumUpTo(f, n) == IF n = 0 THEN 0 ELSE f[n] + SumUpTo(f, n - 1)

\* loop iterations begun so far, over all monitors
PollsBegun ==
    SumUpTo([j \in JobIds |->
                mon[j].poll_count
                + (IF mon[j].pc \in { "none", "poll", "done" } THEN 0 ELSE 1)],
            MaxJobs)

\* the head of the loop with an attempt at the configuration on every poll
MonPoll_EveryPoll(j) ==
    /\ mon[j].pc = "poll"
    /\ PollsBegun < MaxPolls
    /\ \E job_status \in get_job_status(j) :
         mon' = [mon EXCEPT ![j].status = job_status,
                            ![j].pc =
                                IF job_status = None \/ job_status \in Terminal
                                THEN "done"
                                ELSE IF job_status = "RUNNING"
                                THEN "config"
                                ELSE "emit"]
    /\ UNCHANGED << fileVars, offVars, sched, config_written_jobs, current_job,
                    caller, status_events, ready_count >>

\* the head of the loop: get_job_status and the branch on its result
MonPoll(j) ==
    /\ mon[j].pc = "poll"
    /\ PollsBegun < MaxPolls
    /\ \E job_status \in get_job_status(j) :
         mon' = [mon EXCEPT ![j].status = job_status,
                            ![j].pc =
                                IF job_status = None \/ job_status \in Terminal
                                THEN "done"
                                ELSE IF job_status = "RUNNING"
                                        /\ mon[j].poll_count % 2 = 0
                                THEN "config"
                                ELSE "emit"]
    /\ UNCHANGED << fileVars, offVars, sched, config_written_jobs, current_job,
                    caller, status_events, ready_count >>

\* the compute node the scheduler runs job j on
NodeOf(j) == ((j - 1) % MaxNodes) + 1

\* _parse_vscode_config and the test "hostname and job_id not in
\* self.config_written_jobs"; h = 0 stands for a config that is None
MonParseConfig(j) ==
    /\ mon[j].pc = "config"
    /\ \E h \in { NodeOf(j), 0 } :
         mon' = [mon EXCEPT ![j].host = h,
                            ![j].failed = @ \/ h = 0,
                            ![j].pc = IF h = 0 THEN "emit"
                                      ELSE IF j \notin config_written_jobs
                                      THEN "add_read"
                                      ELSE "ready"]
    /\ UNCHANGED << fileVars, offVars, sched, config_written_jobs, current_job,
                    caller, status_events, ready_count >>

\* _add_ssh_config_to_local, first half: read the existing file
MonAddRead(j) ==
    /\ mon[j].pc = "add_read"
    /\ mon' = [mon EXCEPT ![j].snap = IF config_exists THEN config_file ELSE <<>>,
                          ![j].pc = "add_write"]
    /\ UNCHANGED << fileVars, offVars, sched, config_written_jobs, current_job,
                    caller, status_events, ready_count >>

\* _add_ssh_config_to_local, second half: write the file; a write that
\* raises (ok = FALSE) is caught inside the function, which returns as
\* after a write
MonAddWrite(j) ==
    /\ mon[j].pc = "add_write"
    /\ \E ok \in BOOLEAN :
         IF ok
         THEN /\ config_file' = AddWrite(mon[j].snap, j, mon[j].host)
              /\ config_exists' = TRUE
         ELSE UNCHANGED fileVars
    /\ mon' = [mon EXCEPT ![j].snap = <<>>, ![j].pc = "wrote"]
    /\ UNCHANGED << offVars, sched, config_written_jobs, current_job,
                    caller, status_events, ready_count >>

\* the rest of the iteration: config_written_jobs.add after a write,
\* vscode_config_ready when a config was found, vscode_job_status_updated,
\* poll_count += 1, sleep, and the test against the limit
MonFinishPoll(j) ==
    /\ mon[j].pc \in { "wrote", "ready", "emit" }
    /\ config_written_jobs' =
           IF mon[j].pc = "wrote" THEN config_written_jobs \cup { j }
           ELSE config_written_jobs
    /\ ready_count' =
           IF mon[j].pc \in { "wrote", "ready" }
           THEN [ready_count EXCEPT ![j] = @ + 1]
           ELSE ready_count
    /\ status_events' = [status_events EXCEPT ![j] = Emit(@, mon[j].status)]
    /\ mon' = [mon EXCEPT ![j].poll_count = @ + 1,
                          ![j].host = 0,
                          ![j].pc = IF BudgetExceeded(mon[j].poll_count + 1)
                                    THEN "done" ELSE "poll"]
    /\ UNCHANGED << fileVars, offVars, sched, current_job, caller >>

\* --- the caller's thread
Returning(op, j, ret, removed) ==
    [pc |-> "return", op |-> op, job |-> j, snap |-> <<>>, ret |-> ret,
     removed |-> removed, remote |-> FALSE, submitted |-> 0]

\* the call is over: the caller has its result and is free for the next call
CallerReturn ==
    /\ caller.pc = "return"
    /\ caller' = IdleCaller
    /\ UNCHANGED << fileVars, offVars, sched, config_written_jobs, current_job,
                    mon, status_events, ready_count >>

\* a submit_vscode_job call that raises: nothing is emitted or started
SubmitRaises(ret) ==
    /\ caller' = [Returning("submit", 0, ret, FALSE)
                     EXCEPT !.remote = (ret # "ValueError")]
    /\ UNCHANGED << sched, mon >>

\* submit_vscode_job without the _start_poll_job_status call
submit_vscode_job_NoThread(account, connected, ack) ==
    /\ caller.pc = "idle"
    /\ IF ~account THEN SubmitRaises("ValueError")
       ELSE IF ~connected \/ ~ack THEN SubmitRaises("Exception")
       ELSE \E j \in JobIds :
            /\ sched[j] = "NONE"
            /\ \A k \in JobIds : k < j => sched[k] # "NONE"
            /\ sched' = [sched EXCEPT ![j] = "PENDING"]
            /\ UNCHANGED mon
            /\ caller' = [Returning("submit", j, "True", FALSE)
                             EXCEPT !.remote = TRUE, !.submitted = j]
    /\ UNCHANGED << fileVars, offVars, config_written_jobs, current_job,
                    status_events, ready_count >>

\* submit_vscode_job taking any output of the sbatch command for an
\* acknowledgment: without one, the record and the thread get an id that
\* the scheduler never handed out
submit_vscode_job_AnyOutput(account, connected, ack) ==
    /\ caller.pc = "idle"
    /\ IF ~account THEN SubmitRaises("ValueError")
       ELSE IF ~connected THEN SubmitRaises("Exception")
       ELSE \E j \in JobIds :
            /\ sched[j] = "NONE"
            /\ \A k \in JobIds : k < j => sched[k] # "NONE"
            /\ sched' = IF ack THEN [sched EXCEPT ![j] = "PENDING"] ELSE sched
            /\ mon' = [mon EXCEPT ![j].pc = "poll"]
            /\ caller' = [Returning("submit", j, "True", FALSE)
                             EXCEPT !.remote = TRUE, !.submitted = j]
    /\ UNCHANGED << fileVars, offVars, config_written_jobs, current_job,
                    status_events, ready_count >>

\* submit_vscode_job with the connection made before the account is looked at
submit_vscode_job_ConnectFirst(account, connected, ack) ==
    /\ caller.pc = "idle"
    /\ IF ~connected
       THEN /\ caller' = [Returning("submit", 0, "Exception", FALSE)
                             EXCEPT !.remote = TRUE]
            /\ UNCHANGED << sched, mon >>
       ELSE IF ~account
       THEN /\ caller' = [Returning("submit", 0, "ValueError", FALSE)
                             EXCEPT !.remote = TRUE]
            /\ UNCHANGED << sched, mon >>
       ELSE IF ~ack
       THEN /\ caller' = [Returning("submit", 0, "Exception", FALSE)
                             EXCEPT !.remote = TRUE]
            /\ UNCHANGED << sched, mon >>
       ELSE \E j \in JobIds :
            /\ sched[j] = "NONE"
            /\ \A k \in JobIds : k < j => sched[k] # "NONE"
            /\ sched' = [sched EXCEPT ![j] = "PENDING"]
            /\ mon' = [mon EXCEPT ![j].pc = "poll"]
            /\ caller' = [Returning("submit", j, "True", FALSE)
                             EXCEPT !.remote = TRUE, !.submitted = j]
    /\ UNCHANGED << fileVars, offVars, config_written_jobs, current_job,
                    status_events, ready_count >>

\* submit_vscode_job
\* account: a billing account was given; connected: connect_ssh succeeded;
\* ack: the sbatch output holds "Submitted batch job <id>".  The account
\* test comes first and raises ValueError; connect_ssh and the sbatch
\* command follow; with the acknowledgment vscode_job_submitted is emitted
\* and the poll_job thread is started.
submit_vscode_job(account, connected, ack) ==
    /\ caller.pc = "idle"
    /\ IF ~account
       THEN /\ caller' = Returning("submit", 0, "ValueError", FALSE)
            /\ UNCHANGED << sched, mon >>
       ELSE IF ~connected \/ ~ack
       THEN /\ caller' = [Returning("submit", 0, "Exception", FALSE)
                             EXCEPT !.remote = TRUE]
            /\ UNCHANGED << sched, mon >>
       ELSE \E j \in JobIds :
            /\ sched[j] = "NONE"
            /\ \A k \in JobIds : k < j => sched[k] # "NONE"
            /\ sched' = [sched EXCEPT ![j] = "PENDING"]
            /\ mon' = [mon EXCEPT ![j].pc = "poll"]
            /\ caller' = [Returning("submit", j, "True", FALSE)
                             EXCEPT !.remote = TRUE, !.submitted = j]
    /\ UNCHANGED << fileVars, offVars, config_written_jobs, current_job,
                    status_events, ready_count >>

\* cancel_job(job_id)
\* the end of the try block once _remove_ssh_config_from_local is back
CancelReturnTrue(j) ==
    /\ config_written_jobs' = config_written_jobs \ { j }
    /\ status_events' =
           IF current_job = j
           THEN [status_events EXCEPT ![j] = Emit(@, "CANCELLED")]
           ELSE status_events
    /\ caller' = [Returning("cancel", j, "True", TRUE) EXCEPT !.remote = TRUE]

\* execute_ssh_command("scancel <id>"): ok = it returned, ~ok = it raised
\* (connection down, or only stderr output as for an id the scheduler does
\* not know) and cancel_job returns False from its except clause
CancelScancel(j) ==
    /\ caller.pc = "idle"
    /\ \E ok \in BOOLEAN :
         /\ sched[j] = "NONE" => ~ok
         /\ IF ok
            THEN /\ sched' = [sched EXCEPT ![j] = IF @ \in Live THEN "CANCELLED" ELSE @]
                 /\ caller' = [IdleCaller EXCEPT !.pc = "rm_read", !.op = "cancel",
                                                 !.job = j, !.remote = TRUE]
            ELSE /\ caller' = [Returning("cancel", j, "False", FALSE)
                                  EXCEPT !.remote = TRUE]
                 /\ UNCHANGED sched
    /\ UNCHANGED << fileVars, offVars, config_written_jobs, current_job, mon,
                    status_events, ready_count >>

\* _remove_ssh_config_from_local, first half: the existence test and the read
CancelRemoveRead ==
    /\ caller.pc = "rm_read"
    /\ IF config_exists
       THEN /\ caller' = [caller EXCEPT !.pc = "rm_write", !.snap = config_file]
            /\ UNCHANGED << config_written_jobs, status_events >>
       ELSE CancelReturnTrue(caller.job)
    /\ UNCHANGED << fileVars, offVars, sched, current_job, mon, ready_count >>

\* _remove_ssh_config_from_local, second half: search, write on a match;
\* then cancel_job goes on to its return
CancelRemoveWrite ==
    /\ caller.pc = "rm_write"
    /\ config_file' = IF pattern_search(caller.snap, caller.job)
                      THEN RemoveWrite(caller.snap, caller.job)
                      ELSE config_file
    /\ CancelReturnTrue(caller.job)
    /\ UNCHANGED << config_exists, offVars, sched, current_job, mon, ready_count >>

Init ==
    /\ \/ config_exists = FALSE /\ config_file = <<>>
       \/ config_exists = TRUE /\ config_file = << USR, NL >>
    /\ HistIdle
    /\ MgrIdle
    /\ ChanIdle
    /\ BudIdle
    /\ WidIdle
    /\ ConnIdle
    /\ FnIdle

Next ==
    \/ \E account, connected, ack \in BOOLEAN :
           submit_vscode_job(account, connected, ack)
    \/ \E j \in JobIds : CancelScancel(j)
    \/ CancelRemoveRead
    \/ CancelRemoveWrite
    \/ CallerReturn
    \/ \E j \in JobIds : MonPoll(j)
    \/ \E j \in JobIds : MonParseConfig(j)
    \/ \E j \in JobIds : MonAddRead(j)
    \/ \E j \in JobIds : MonAddWrite(j)
    \/ \E j \in JobIds : MonFinishPoll(j)
    \/ \E j \in JobIds : SchedRun(j)
    \/ \E j \in JobIds : SchedEnd(j)
    \/ \E j \in JobIds : SchedRequeue(j)

Spec == Init /\ [][Next]_vars

\* -------------------------------------------------------------- SpecChan
\* Threads calling execute_ssh_command (and connect_ssh) on one manager.
\* VSCodeManager.execute_ssh_command takes no lock; NodeStatusManager's
\* holds self.lock (a threading.Lock, not re-entrant) for the whole call,
\* and NodeStatusManager.connect_ssh takes the same lock.
Locked == cls = "NodeStatusManager"

\* leaving execute_ssh_command: the with block releases the lock
Leave(t, result) ==
    /\ th' = [th EXCEPT ![t].pc = "idle", ![t].ret_to = "idle",
                        ![t].result = result]
    /\ lock' = IF Locked THEN 0 ELSE lock

\* a thread enters execute_ssh_command
ChCallExecute(t) ==
    /\ th[t].pc = "idle"
    /\ th' = [th EXCEPT ![t] = [NoThread EXCEPT
                                  !.pc = IF Locked THEN "lock" ELSE "check"]]
    /\ UNCHANGED << cls, lock, ssh_client, chanOff >>

\* a thread calls connect_ssh itself
ChCallConnect(t) ==
    /\ th[t].pc = "idle"
    /\ th' = [th EXCEPT ![t] = [NoThread EXCEPT !.pc = "connect"]]
    /\ UNCHANGED << cls, lock, ssh_client, chanOff >>

\* NodeStatusManager.execute_ssh_command: with self.lock
ChAcquire(t) ==
    /\ th[t].pc = "lock"
    /\ lock = 0
    /\ lock' = t
    /\ th' = [th EXCEPT ![t].pc = "check"]
    /\ UNCHANGED << cls, ssh_client, chanOff >>

\* "if not self._ssh_client or ... not is_active(): if not self.connect_ssh()"
ChCheck(t) ==
    /\ th[t].pc = "check"
    /\ th' = [th EXCEPT ![t] = IF ssh_client = "active"
                               THEN [@ EXCEPT !.pc = "exec"]
                               ELSE [@ EXCEPT !.pc = "connect", !.ret_to = "exec"]]
    /\ UNCHANGED << cls, lock, ssh_client, chanOff >>

\* connect_ssh: NodeStatusManager's body runs under self.lock, which the
\* thread has to get first; an active client is kept, otherwise a new one is
\* connected (ok) or the attempt fails and False is returned.  Where the
\* thread goes on depends on who called connect_ssh.
ChConnect(t) ==
    /\ th[t].pc = "connect"
    /\ Locked => lock = 0
    /\ \E ok \in BOOLEAN :
         /\ ssh_client = "active" => ok
         /\ ssh_client' = IF ok THEN "active" ELSE "inactive"
         /\ IF th[t].ret_to = "idle"
            THEN /\ th' = [th EXCEPT ![t] =
                              [NoThread EXCEPT !.result = IF ok THEN "True" ELSE "False"]]
                 /\ UNCHANGED lock
            ELSE IF th[t].ret_to = "raise"
            THEN Leave(t, "raised")
            ELSE IF ok
            THEN /\ th' = [th EXCEPT ![t].pc = "exec"]
                 /\ UNCHANGED lock
            ELSE IF Locked
            THEN Leave(t, "raised")
            ELSE /\ th' = [th EXCEPT ![t].ret_to = "raise", ![t].reconn = @ + 1]
                 /\ UNCHANGED lock
    /\ UNCHANGED << cls, chanOff >>

\* the except clause of execute_ssh_command: reconnect, then raise
Handler(t) ==
    th' = [th EXCEPT ![t].pc = "connect", ![t].ret_to = "raise",
                     ![t].reconn = @ + 1]

\* exec_command is issued on the client's transport
ChExecStart(t) ==
    /\ th[t].pc = "exec"
    /\ IF ssh_client = "active"
       THEN th' = [th EXCEPT ![t].pc = "running", ![t].runs = @ + 1]
       ELSE Handler(t)
    /\ UNCHANGED << cls, lock, ssh_client, chanOff >>

\* what a command can leave on its two streams

\* "if error and not output": the command is taken to have failed
CommandFails(output, error) == error # "" /\ output = ""

\* stdout.read() / stderr.read() come back with output and error, or the
\* transport fails under them; a failed command raises into the except
\* clause, anything else returns output
ChExecFinish(t) ==
    /\ th[t].pc = "running"
    /\ \/ /\ Handler(t)
          /\ ssh_client' = "inactive"
          /\ UNCHANGED lock
       \/ \E output \in { "", "out" }, error \in { "", "err" } :
            IF CommandFails(output, error)
            THEN /\ th' = [th EXCEPT ![t].pc = "connect", ![t].ret_to = "raise",
                                     ![t].reconn = @ + 1,
                                     ![t].out = output, ![t].err = error]
                 /\ UNCHANGED << lock, ssh_client >>
            ELSE /\ th' = [th EXCEPT ![t].pc = "idle", ![t].ret_to = "idle",
                                     ![t].result = output,
                                     ![t].out = output, ![t].err = error]
                 /\ lock' = IF Locked THEN 0 ELSE lock
                 /\ UNCHANGED ssh_client
    /\ UNCHANGED << cls, chanOff >>

\* the network drops the connection
ChDrop ==
    /\ ssh_client = "active"
    /\ ssh_client' = "inactive"
    /\ UNCHANGED << cls, lock, th, chanOff >>

\* __init__ has called connect_ssh once, with or without success
InitChan ==
    /\ cls \in { "VSCodeManager", "NodeStatusManager" }
    /\ lock = 0
    /\ ssh_client \in { "active", "inactive" }
    /\ th = [t \in Threads |-> NoThread]
    /\ config_exists = FALSE /\ config_file = <<>>
    /\ HistIdle
    /\ MgrIdle
    /\ BudIdle
    /\ WidIdle
    /\ ConnIdle
    /\ FnIdle

NextChan ==
    \/ \E t \in Threads : ChCallExecute(t)
    \/ \E t \in Threads : ChCallConnect(t)
    \/ \E t \in Threads : ChAcquire(t)
    \/ \E t \in Threads : ChCheck(t)
    \/ \E t \in Threads : ChConnect(t)
    \/ \E t \in Threads : ChExecStart(t)
    \/ \E t \in Threads : ChExecFinish(t)
    \/ ChDrop

SpecChan == InitChan /\ [][NextChan]_vars

\* ------------------------------------------------------------ SpecBudget
\* One monitor thread followed from its start to its end, with the code's
\* own limits: either poll_job (the thread _start_poll_job_status starts) or
\* _monitor_job_status (the thread wait_for_job_and_get_config starts).  The
\* scheduler may report any state at any poll.  Of the signals only
\* vscode_job_status_updated is recorded (bud.event: the state it carried
\* last); bud.polls counts the get_job_status calls of poll_job.
BudJob == 1

\* _monitor_job_status: "max_wait_time = 60 * 60" seconds, "time.sleep(10)",
\* and exec_command(command, timeout=30)
max_wait_time == 60 * 60
MonitorSleep == 10
ExecTimeout == 30

\* poll_job: get_job_status and the branch on its result
BudPoll ==
    /\ bud.kind = "poll_job" /\ bud.pc = "poll"
    /\ \E job_status \in { None } \cup Live \cup Terminal :
         bud' = [bud EXCEPT !.polls = @ + 1,
                            !.status = job_status,
                            !.pc = IF job_status = None \/ job_status \in Terminal
                                   THEN "done" ELSE "body"]
    /\ UNCHANGED << fileVars, mgrVars, budOff >>

\* poll_job: the rest of the iteration.  For a RUNNING job on an even
\* poll_count the config is parsed (h = 0: None) and on the first success
\* the block is written; the status event, the increment, the sleep and the
\* exit test follow.
BudFinishPoll ==
    /\ bud.kind = "poll_job" /\ bud.pc = "body"
    /\ IF bud.status = "RUNNING" /\ bud.poll_count % 2 = 0
       THEN \E h \in { NodeOf(BudJob), 0 } :
              IF h # 0 /\ BudJob \notin config_written_jobs
              THEN /\ add_ssh_config_to_local(BudJob, h)
                   /\ config_written_jobs' = config_written_jobs \cup { BudJob }
              ELSE UNCHANGED << fileVars, config_written_jobs >>
       ELSE UNCHANGED << fileVars, config_written_jobs >>
    /\ bud' = [bud EXCEPT !.event = bud.status,
                          !.poll_count = @ + 1,
                          !.pc = IF BudgetExceeded(bud.poll_count + 1)
                                 THEN "done" ELSE "poll"]
    /\ UNCHANGED << budOff, sched, current_job, mon, caller,
                    status_events, ready_count >>

\* _monitor_job_status: "while time.time() - start_time < max_wait_time"
\* is left once this holds
WaitOver(elapsed) == elapsed >= max_wait_time

\* _monitor_job_status: the loop test; after the loop error_occurred is
\* emitted and the thread ends
WallHead ==
    /\ bud.kind = "_monitor_job_status" /\ bud.pc = "head"
    /\ bud' = [bud EXCEPT !.pc = IF WaitOver(bud.elapsed) THEN "done" ELSE "squeue"]
    /\ UNCHANGED << fileVars, mgrVars, budOff >>

\* _monitor_job_status: the squeue command, which takes d seconds, and
\* what follows from its output.  Every branch that has an output writes
\* into self.current_job first: while that is None the TypeError lands in
\* the inner except clause and the loop goes on.
WallSqueue ==
    /\ bud.kind = "_monitor_job_status" /\ bud.pc = "squeue"
    /\ \E d \in { 0, ExecTimeout },
          out \in { "raised", "empty", "PENDING", "RUNNING", "RUNNING+config" } :
         bud' = [bud EXCEPT
                   !.elapsed = @ + d,
                   !.event = IF out = "raised" \/ current_job = 0 THEN @
                             ELSE IF out = "empty" THEN "COMPLETED"
                             ELSE IF out = "PENDING" THEN "PENDING"
                             ELSE "RUNNING",
                   !.pc = IF out = "raised" \/ current_job = 0 THEN "sleep"
                          ELSE IF out \in { "empty", "RUNNING+config" } THEN "done"
                          ELSE "sleep"]
    /\ UNCHANGED << fileVars, mgrVars, budOff >>

\* _monitor_job_status: time.sleep(10)
WallSleep ==
    /\ bud.kind = "_monitor_job_status" /\ bud.pc = "sleep"
    /\ bud' = [bud EXCEPT !.elapsed = @ + MonitorSleep, !.pc = "head"]
    /\ UNCHANGED << fileVars, mgrVars, budOff >>

\* the thread has just been started, on a manager that has no job yet
InitBudget ==
    /\ bud \in { [NoBud EXCEPT !.kind = "poll_job", !.pc = "poll"],
                  [NoBud EXCEPT !.kind = "_monitor_job_status", !.pc = "head"] }
    /\ \/ config_exists = FALSE /\ config_file = <<>>
       \/ config_exists = TRUE /\ config_file = << USR, NL >>
    /\ HistIdle
    /\ MgrIdle
    /\ ChanIdle
    /\ WidIdle
    /\ ConnIdle
    /\ FnIdle

NextBudget ==
    \/ BudPoll
    \/ BudFinishPoll
    \/ WallHead
    \/ WallSqueue
    \/ WallSleep

SpecBudget == InitBudget /\ [][NextBudget]_vars

\* the thread is scheduled again and again, and every call it makes returns
SpecBudgetFair == SpecBudget /\ WF_vars(NextBudget)

\* ------------------------------------------------------------ SpecWidget
\* VSCodeWidget.submit_job, the slot behind the GUI's submit button, and
\* the manager calls it makes.  wid.remote counts the commands that are
\* known to have been executed on the manager's SSH connection since the
\* slot was entered (a call that fails is counted only where the command
\* was sent).

\* "gpu" in account.lower()
is_gpu_account(account) == account = "LAB_GPU"

\* gpu_type is not None
is_requesting_gpu(gpu_type) == gpu_type # None

\* the user presses the button with the form filled in somehow
WidClick(account, gpu_type) ==
    /\ wid.pc = "idle"
    /\ wid' = [IdleWid EXCEPT !.pc = "list", !.account = account,
                              !.gpu_type = gpu_type]
    /\ UNCHANGED << widOff, ssh_client >>

\* get_running_vscode_jobs(): the squeue command is run first of all.
\* unreachable: no connection could be made, nothing was executed;
\* raised: the command was sent and failed; both give [] and the slot goes
\* on.  Otherwise the list has a RUNNING job (k > 0) or none.
WidListJobs ==
    /\ wid.pc = "list"
    /\ \E out \in { "unreachable", "raised", "listed" }, k \in 0..MaxJobs :
         /\ out # "listed" => k = 0
         /\ out = "unreachable" => ssh_client = "inactive"
         /\ ssh_client' = IF out = "listed" THEN "active" ELSE "inactive"
         /\ wid' = [wid EXCEPT !.remote = IF out = "unreachable" THEN @ ELSE @ + 1,
                               !.job = k,
                               !.pc = IF k > 0 THEN "confirm" ELSE "validate"]
    /\ UNCHANGED widOff

\* QMessageBox.question: cancel the running job and go on, or keep it
WidConfirm ==
    /\ wid.pc = "confirm"
    /\ \E yes \in BOOLEAN :
         wid' = IF yes THEN [wid EXCEPT !.pc = "cancel"]
                ELSE [wid EXCEPT !.pc = "done", !.outcome = "kept_old_job"]
    /\ UNCHANGED << widOff, ssh_client >>

\* cancel_job(job_id) of the manager: scancel; on False the slot gives up
WidCancel ==
    /\ wid.pc = "cancel"
    /\ \E success \in BOOLEAN :
         /\ ssh_client' = IF success THEN "active" ELSE "inactive"
         /\ wid' = IF success
                   THEN [wid EXCEPT !.remote = @ + 1, !.pc = "validate"]
                   ELSE [wid EXCEPT !.pc = "done", !.outcome = "cancel_failed"]
    /\ UNCHANGED widOff

\* the form is read and checked: account, then the two GPU constraints
WidValidate ==
    /\ wid.pc = "validate"
    /\ wid' = IF wid.account = ""
              THEN [wid EXCEPT !.pc = "done", !.outcome = "rejected_account"]
              ELSE IF is_requesting_gpu(wid.gpu_type) # is_gpu_account(wid.account)
              THEN [wid EXCEPT !.pc = "done", !.outcome = "rejected_gpu"]
              ELSE [wid EXCEPT !.pc = "submit"]
    /\ UNCHANGED << widOff, ssh_client >>

\* submit_vscode_job of the manager: connect_ssh, the sbatch command, the
\* acknowledgment; an exception is shown as an error
WidSubmit ==
    /\ wid.pc = "submit"
    /\ \E connected, ack \in BOOLEAN :
         /\ ssh_client = "active" => connected
         /\ ssh_client' = IF connected THEN "active" ELSE "inactive"
         /\ wid' = [wid EXCEPT
                      !.remote = IF connected THEN @ + 1 ELSE @,
                      !.pc = "done",
                      !.outcome = IF connected /\ ack THEN "submitted"
                                  ELSE "submit_failed"]
    /\ UNCHANGED widOff

\* the slot has returned; the form is free for the next press
WidReturn ==
    /\ wid.pc = "done"
    /\ wid' = IdleWid
    /\ UNCHANGED << widOff, ssh_client >>

\* the widget with its manager, connected by __init__ or not
InitWidget ==
    /\ WidIdle
    /\ ConnIdle
    /\ FnIdle
    /\ cls = "VSCodeManager" /\ lock = 0 /\ th = [t \in Threads |-> NoThread]
    /\ ssh_client \in { "active", "inactive" }
    /\ config_exists = FALSE /\ config_file = <<>>
    /\ HistIdle
    /\ MgrIdle
    /\ BudIdle

NextWidget ==
    \/ \E account \in { "", "LAB", "LAB_GPU" }, gpu_type \in { None, "V100" } :
         WidClick(account, gpu_type)
    \/ WidListJobs
    \/ WidConfirm
    \/ WidCancel
    \/ WidValidate
    \/ WidSubmit
    \/ WidReturn

SpecWidget == InitWidget /\ [][NextWidget]_vars

\* -------------------------------------------------------------- SpecConn
\* connect_ssh step by step, called by several threads of one manager
\* (directly, or from execute_ssh_command when it finds no active
\* connection).  VSCodeManager.connect_ssh takes no lock and closes the old
\* client; NodeStatusManager.connect_ssh runs under self.lock and does not.
ConnPc(t, pc) == [conn EXCEPT !.pc[t] = pc]

\* self._ssh_client and its transport is_active()
ConnActive == conn.ref # 0 /\ conn.tr[conn.ref] = "live"

\* the transports that are open
LiveTransports == { c \in Clients : conn.tr[c] = "live" }

\* a thread calls connect_ssh
CoCall(t) ==
    /\ conn.pc[t] = "idle"
    /\ conn' = ConnPc(t, IF Locked THEN "lock" ELSE "check")
    /\ UNCHANGED << cls, lock, connOff >>

\* a thread calls execute_ssh_command: VSCodeManager's goes to connect_ssh
\* when the connection is not active; NodeStatusManager's takes self.lock
\* first
CoCallExecute(t) ==
    /\ conn.pc[t] = "idle"
    /\ IF Locked THEN conn' = ConnPc(t, "exec_lock")
       ELSE /\ ~ConnActive
            /\ conn' = ConnPc(t, "check")
    /\ UNCHANGED << cls, lock, connOff >>

\* NodeStatusManager.execute_ssh_command: with self.lock
CoExecAcquire(t) ==
    /\ conn.pc[t] = "exec_lock"
    /\ lock = 0
    /\ lock' = t
    /\ conn' = ConnPc(t, "exec_check")
    /\ UNCHANGED << cls, connOff >>

\* NodeStatusManager.execute_ssh_command under the lock: with an active
\* connection the command is run and the lock released, otherwise
\* connect_ssh is called with the lock still held
CoExecCheck(t) ==
    /\ conn.pc[t] = "exec_check"
    /\ IF ConnActive
       THEN /\ conn' = ConnPc(t, "idle")
            /\ lock' = 0
       ELSE /\ conn' = ConnPc(t, "lock")
            /\ UNCHANGED lock
    /\ UNCHANGED << cls, connOff >>

\* NodeStatusManager.connect_ssh: with self.lock
CoAcquire(t) ==
    /\ conn.pc[t] = "lock"
    /\ lock = 0
    /\ lock' = t
    /\ conn' = ConnPc(t, "check")
    /\ UNCHANGED << cls, connOff >>

\* "if self._ssh_client and ... is_active(): return True"
CoCheck(t) ==
    /\ conn.pc[t] = "check"
    /\ IF ConnActive
       THEN /\ conn' = ConnPc(t, "idle")
            /\ lock' = IF Locked THEN 0 ELSE lock
       ELSE /\ conn' = ConnPc(t, IF Locked THEN "new" ELSE "close")
            /\ UNCHANGED lock
    /\ UNCHANGED << cls, connOff >>

\* VSCodeManager: "if self._ssh_client: self._ssh_client.close()"
CoClose(t) ==
    /\ conn.pc[t] = "close"
    /\ conn' = [ConnPc(t, "new") EXCEPT
                  !.tr = IF conn.ref # 0 /\ conn.tr[conn.ref] = "live"
                         THEN [conn.tr EXCEPT ![conn.ref] = "closed"]
                         ELSE conn.tr]
    /\ UNCHANGED << cls, lock, connOff >>

\* "self._ssh_client = paramiko.SSHClient()"
CoNew(t) ==
    /\ conn.pc[t] = "new"
    /\ conn.made < MaxClients
    /\ conn' = [ConnPc(t, "connect") EXCEPT !.made = @ + 1, !.ref = conn.made + 1]
    /\ UNCHANGED << cls, lock, connOff >>

\* "self._ssh_client.connect(...)", on the client the attribute refers to
\* at that moment.  ok: a transport is opened (SSHClient.connect puts it in
\* the place of the one the client held, without closing that one);
\* otherwise the call raises and connect_ssh returns False.
CoConnect(t) ==
    /\ conn.pc[t] = "connect"
    /\ \E ok \in BOOLEAN :
         conn' = IF ok
                 THEN [ConnPc(t, "idle") EXCEPT
                         !.tr[conn.ref] = "live",
                         !.orphans = IF conn.tr[conn.ref] = "live" THEN @ + 1 ELSE @]
                 ELSE ConnPc(t, "idle")
    /\ lock' = IF Locked THEN 0 ELSE lock
    /\ UNCHANGED << cls, connOff >>

\* the network drops a transport
CoDrop ==
    /\ \E c \in LiveTransports : conn' = [conn EXCEPT !.tr[c] = "dead"]
    /\ UNCHANGED << cls, lock, connOff >>

\* __init__ has called connect_ssh once: one client, connected or not
InitConn ==
    /\ cls \in { "VSCodeManager", "NodeStatusManager" }
    /\ lock = 0
    /\ \E st \in { "live", "none" } :
         conn = [NoConn EXCEPT !.ref = 1, !.made = 1, !.tr[1] = st]
    /\ ssh_client = "inactive"
    /\ th = [t \in Threads |-> NoThread]
    /\ config_exists = FALSE /\ config_file = <<>>
    /\ HistIdle
    /\ MgrIdle
    /\ BudIdle
    /\ WidIdle
    /\ FnIdle

NextConn ==
    \/ \E t \in Threads : CoCall(t)
    \/ \E t \in Threads : CoCallExecute(t)
    \/ \E t \in Threads : CoExecAcquire(t)
    \/ \E t \in Threads : CoExecCheck(t)
    \/ \E t \in Threads : CoAcquire(t)
    \/ \E t \in Threads : CoCheck(t)
    \/ \E t \in Threads : CoClose(t)
    \/ \E t \in Threads : CoNew(t)
    \/ \E t \in Threads : CoConnect(t)
    \/ CoDrop

SpecConn == InitConn /\ [][NextConn]_vars


\* ------------------------------------------- get_job_status, as a function
\* The text a command prints is a sequence of lines, a line a sequence of
\* tokens; "|" separates the fields of a line and " " is white space.
Bar == "|"

\* str.strip() of a line: the white space at both ends goes
strip_line(l) ==
    LET ink == { i \in 1..Len(l) : l[i] # " " }
    IN  IF ink = {} THEN <<>>
        ELSE SubSeq(l, Min(ink), CHOOSE i \in ink : \A k \in ink : k <= i)

\* output.strip().split('\n'): the blank lines at both ends go, and the
\* white space at the outer ends of the first and the last line left (no
\* line printed here ends or begins with white space next to text, so the
\* two are stripped at both ends)
strip_text(t) ==
    LET ink == { i \in 1..Len(t) : strip_line(t[i]) # <<>> }
    IN  IF ink = {} THEN <<>>
        ELSE LET lo == Min(ink)
                 hi == CHOOSE i \in ink : \A k \in ink : k <= i
             IN  [i \in 1..(hi - lo + 1) |->
                    IF i = 1 \/ i = hi - lo + 1 THEN strip_line(t[lo + i - 1])
                    ELSE t[lo + i - 1]]

\* line.split('|'): the fields between the bars; a field is the text of
\* its tokens (the lines here have at most one token in a field)
RECURSIVE split(_)
split(l) ==
    IF \E i \in 1..Len(l) : l[i] = Bar
    THEN LET i == Min({ k \in 1..Len(l) : l[k] = Bar })
         IN  << SubSeq(l, 1, i - 1) >> \o split(SeqFrom(l, i + 1))
    ELSE << l >>

FieldText(f) == IF f = <<>> THEN "" ELSE f[1]

\* what sacct -n -P prints for job 7: the job's line and the lines of its
\* steps
JobLine(state) ==
    << "vscode", Bar, "7", Bar, state, Bar, "n1", Bar, "4", Bar, "8G", Bar,
       "1:00:00" >>
BatchLine ==
    << "batch", Bar, "7.batch", Bar, "COMPLETED", Bar, "n1", Bar, "4", Bar,
       "", Bar, "" >>

\* the longest sacct text tried
MaxLines == 3

\* what a command does: it raises (transport failure, or stderr without
\* stdout), or it returns its stdout
Raise == [raises |-> TRUE, out |-> <<>>]
Prints(text) == [raises |-> FALSE, out |-> text]

\* sacct prints up to MaxLines lines: the job's line, the line of a step,
\* or stray text (a line without a bar, an empty line)
SacctOutcomes ==
    LET lines == { JobLine(st) : st \in { "COMPLETED", "FAILED", "PENDING" } }
                    \cup { BatchLine,
                           << "extern", Bar, "7.extern", Bar, "COMPLETED", Bar,
                              "n1", Bar, "4", Bar, "", Bar, "" >>,
                           << "warning" >>, <<>> }
    IN  { Raise } \cup
        { Prints(t) : t \in UNION { [1..k -> lines] : k \in 0..MaxLines } }

\* what squeue -h prints for job 7: nothing, white space, the job's row,
\* or a row cut short
SqueueOutcomes ==
    { Raise } \cup
    { Prints(l) :
        l \in { <<>>, << " " >>,
               << "vscode", Bar, "7", Bar, "RUNNING", Bar, "n1", Bar, "4", Bar,
                  "8G", Bar, "1:00:00" >>,
               << "vscode", Bar, "7", Bar, "PENDING", Bar, "(None)", Bar, "4",
                  Bar, "8G", Bar, "1:00:00" >>,
               << "vscode", Bar, "7" >> } }

\* what get_job_status returns for "return None"
NoStatus == [status |-> None, node |-> None]

\* get_job_status, the branch that reads sacct's output: the first line
\* that names no step and has three fields gives the state, and no such
\* line gives CANCELLED
RECURSIVE sacct_status_AnyLine(_)
sacct_status_AnyLine(lines) ==
    IF lines = <<>> THEN [status |-> "CANCELLED", node |-> None]
    ELSE LET parts == split(Head(lines))
         IN  IF Len(parts) >= 3
             THEN [status |-> FieldText(parts[3]),
                   node |-> IF Len(parts) > 3 THEN FieldText(parts[4]) ELSE ""]
             ELSE sacct_status_AnyLine(Tail(lines))

RECURSIVE sacct_lines(_)
sacct_lines(lines) ==
    IF lines = <<>> THEN [status |-> "CANCELLED", node |-> None]
    ELSE LET line == Head(lines)
             parts == split(line)
             step == \E i \in 1..Len(line) : line[i] \in { "7.batch", "7.extern" }
         IN  IF ~step /\ Len(parts) >= 3
             THEN [status |-> FieldText(parts[3]),
                   node |-> IF Len(parts) > 3 THEN FieldText(parts[4]) ELSE ""]
             ELSE sacct_lines(Tail(lines))

sacct_status(sacct_output) ==
    IF sacct_output # <<>> /\ strip_text(sacct_output) # <<>>
    THEN sacct_lines(strip_text(sacct_output))
    ELSE [status |-> "CANCELLED", node |-> None]

\* ... and the branch that reads the row squeue printed
squeue_status(output) ==
    LET parts == split(strip_line(output))
    IN  IF Len(parts) >= 3
        THEN [status |-> FieldText(parts[3]),
              node |-> IF Len(parts) > 3 /\ FieldText(parts[4]) # "(None)"
                       THEN FieldText(parts[4]) ELSE None]
        ELSE NoStatus

GjsReturn(issued, ret) ==
    fn' = [fn EXCEPT !.pc = "done", !.issued = issued, !.ret = ret]

\* "if not job_id: return None", then connect_ssh
GjsEnter ==
    /\ fn.f = "get_job_status" /\ fn.pc = "call"
    /\ \/ fn.job = 0 /\ GjsReturn(fn.issued, NoStatus)
       \/ fn.job # 0 /\ GjsReturn(fn.issued, NoStatus)
       \/ fn.job # 0 /\ fn' = [fn EXCEPT !.pc = "squeue"]
    /\ UNCHANGED fnOff

\* the squeue command, the test "not output or not output.strip()", and
\* what follows when squeue printed a row
GjsSqueue ==
    /\ fn.f = "get_job_status" /\ fn.pc = "squeue"
    /\ LET issued == Append(fn.issued, "squeue")
       IN  IF fn.squeue.raises THEN GjsReturn(issued, NoStatus)
           ELSE IF fn.squeue.out = <<>> \/ strip_line(fn.squeue.out) = <<>>
           THEN fn' = [fn EXCEPT !.pc = "sacct", !.issued = issued]
           ELSE GjsReturn(issued, squeue_status(fn.squeue.out))
    /\ UNCHANGED fnOff

\* the sacct command and what follows
GjsSacct ==
    /\ fn.f = "get_job_status" /\ fn.pc = "sacct"
    /\ LET issued == Append(fn.issued, "sacct")
       IN  IF fn.sacct.raises THEN GjsReturn(issued, NoStatus)
           ELSE GjsReturn(issued, sacct_status(fn.sacct.out))
    /\ UNCHANGED fnOff

\* a call of get_job_status(job_id) with what the two commands will do
InitStatus ==
    /\ \E job \in { 0, 7 }, squeue \in SqueueOutcomes, sacct \in SacctOutcomes :
         fn = [f |-> "get_job_status", pc |-> "call", job |-> job,
               squeue |-> squeue, sacct |-> sacct, issued |-> <<>>,
               ret |-> NoStatus]
    /\ config_exists = FALSE /\ config_file = <<>>
    /\ HistIdle
    /\ MgrIdle
    /\ ChanIdle
    /\ BudIdle
    /\ WidIdle
    /\ ConnIdle

NextStatus == GjsEnter \/ GjsSqueue \/ GjsSacct

SpecStatus == InitStatus /\ [][NextStatus]_vars

\* ------------------------------------ the node reports of NodeStatusManager
\* The most CPUs a node of the reports has
MaxCpus == 2

\* What sinfo knows of a node when a report is printed.  cpus: the digit
\* groups of the CPUsState column, allocated/idle/other/total, or <<>> for
\* a column the pattern (\d+)/(\d+)/(\d+)/(\d+) does not match.  gres: type
\* and count of "gpu:<type>:<count>", or <<>> for "(null)".  gres_used: the
\* type, the number in use and the comma-separated items of "(IDX:...)",
\* or <<>>.
NodeFacts ==
    { [node |-> n, cpus |-> c, gres |-> <<>>, gres_used |-> <<>>] :
          n \in { "n1", "n2" },
          c \in { << a, i, 0, a + i >> : a \in 0..MaxCpus, i \in 0..MaxCpus }
                    \cup { <<>> } }
    \cup
    UNION { { [node |-> n, cpus |-> << 1, 1, 0, 2 >>, gres |-> << "V100", g >>,
               gres_used |-> u] :
                 n \in { "n1", "n2" },
                 u \in { << "V100", 0, << "N/A" >> >>, << "V100", 1, << "0" >> >>,
                         << "V100", 2, << "0-1" >> >> }
                       \cup IF g > 2
                            THEN { << "V100", 2, << "0", "2" >> >>,
                                   << "V100", 3, << "0-2" >> >> }
                            ELSE {} } :
            g \in { 2, 3 } }

\* the partitions whose name holds "gpu"
GpuNamed == { "gpu", "free-gpu" }

\* get_gpu_partition_nodes: each line of the report, split into its
\* columns (NodeList, CPUsState, Memory, AllocMem, Gres, GresUsed,
\* StateComplete), gives one node_info record; a usage value is a ratio,
\* kept as numerator and denominator
get_gpu_partition_nodes(partition_name, report) ==
    [k \in 1..Len(report) |->
        LET parts == << report[k].node, report[k].cpus, "mem", "alloc",
                        report[k].gres, report[k].gres_used, "state" >>
            cpus_info == parts[2]
            allocated_cpus == IF cpus_info # <<>> THEN cpus_info[1] ELSE 0
            total_cpus == IF cpus_info # <<>>
                          THEN allocated_cpus + cpus_info[2] + cpus_info[3]
                                   + cpus_info[4]
                          ELSE 0
            gpu_match == Len(parts) > 4 /\ parts[5] # <<>>
            gpu_count == IF gpu_match THEN parts[5][2] ELSE 0
            \* len(gpu_indices.split(','))
            gpu_used == IF Len(parts) > 5 /\ parts[6] # <<>>
                        THEN Len(parts[6][3]) ELSE 0
        IN  [node_name |-> parts[1],
             total_cpus |-> total_cpus,
             allocated_cpus |-> allocated_cpus,
             gpu_type |-> IF gpu_match THEN parts[5][1] ELSE "unknown",
             gpu_count |-> gpu_count,
             gpu_used |-> gpu_used,
             partition |-> partition_name,
             cpu_usage_value |-> IF total_cpus > 0
                                 THEN [num |-> allocated_cpus * 100, den |-> total_cpus]
                                 ELSE [num |-> 0, den |-> 1],
             gpu_usage_value |-> IF gpu_count > 0
                                 THEN [num |-> gpu_used * 100, den |-> gpu_count]
                                 ELSE [num |-> 0, den |-> 1]]]

\* get_cpu_partition_nodes: the same with the columns NodeList, CPUsState,
\* Memory, AllocMem, Features, StateComplete
get_cpu_partition_nodes(partition_name, report) ==
    [k \in 1..Len(report) |->
        LET parts == << report[k].node, report[k].cpus, "mem", "alloc",
                        "features", "state" >>
            cpus_info == parts[2]
            allocated_cpus == IF cpus_info # <<>> THEN cpus_info[1] ELSE 0
            total_cpus == IF cpus_info # <<>>
                          THEN allocated_cpus + cpus_info[2] + cpus_info[3]
                                   + cpus_info[4]
                          ELSE 0
        IN  [node_name |-> parts[1],
             total_cpus |-> total_cpus,
             allocated_cpus |-> allocated_cpus,
             features |-> parts[5],
             partition |-> partition_name,
             cpu_usage_value |-> IF total_cpus > 0
                                 THEN [num |-> allocated_cpus * 100, den |-> total_cpus]
                                 ELSE [num |-> 0, den |-> 1]]]

\* get_all_partitions_info: the node_list of every partition, in the order
\* sinfo names the partitions
get_all_partitions_info(cluster) ==
    [p \in 1..Len(cluster) |->
        [name |-> cluster[p].name,
         node_list |-> IF cluster[p].name \in GpuNamed
                       THEN get_gpu_partition_nodes(cluster[p].name, cluster[p].report)
                       ELSE get_cpu_partition_nodes(cluster[p].name, cluster[p].report)]]

\* refresh_all_nodes: gpu_nodes and cpu_nodes, each the node lists of its
\* partitions one after the other
RECURSIVE nodes_of(_, _)
nodes_of(partition_data, gpu) ==
    IF partition_data = <<>> THEN <<>>
    ELSE (IF (Head(partition_data).name \in GpuNamed) = gpu
          THEN Head(partition_data).node_list ELSE <<>>)
         \o nodes_of(Tail(partition_data), gpu)

\* ... and the removal of repeated nodes: the first record of a name stays
RECURSIVE unique(_, _)
unique(nodes, seen) ==
    IF nodes = <<>> THEN <<>>
    ELSE LET node == Head(nodes)
         IN  IF node.node_name \notin seen
             THEN << node >> \o unique(Tail(nodes), seen \cup { node.node_name })
             ELSE unique(Tail(nodes), seen)

\* partition_data = self.get_all_partitions_info()
NodesParse ==
    /\ fn.f = "refresh_all_nodes" /\ fn.pc = "call"
    /\ fn' = [fn EXCEPT !.pc = "parsed",
                        !.partition_data = get_all_partitions_info(fn.cluster)]
    /\ UNCHANGED fnOff

\* the rest of refresh_all_nodes
NodesDedup ==
    /\ fn.f = "refresh_all_nodes" /\ fn.pc = "parsed"
    /\ fn' = [fn EXCEPT !.pc = "done",
                        !.gpu_nodes = unique(nodes_of(fn.partition_data, TRUE), {}),
                        !.cpu_nodes = unique(nodes_of(fn.partition_data, FALSE), {})]
    /\ UNCHANGED fnOff

\* a call of refresh_all_nodes with an empty cache; cluster: two
\* partitions in sinfo's order, each with the facts its one-line report is
\* printed from
InitNodes ==
    /\ \E p1, p2 \in GpuNamed \cup { "standard" }, f1, f2 \in NodeFacts :
         /\ p1 # p2
         /\ fn = [f |-> "refresh_all_nodes", pc |-> "call",
                  cluster |-> << [name |-> p1, report |-> << f1 >>],
                                 [name |-> p2, report |-> << f2 >>] >>,
                  partition_data |-> <<>>, gpu_nodes |-> <<>>, cpu_nodes |-> <<>>]
    /\ config_exists = FALSE /\ config_file = <<>>
    /\ HistIdle
    /\ MgrIdle
    /\ ChanIdle
    /\ BudIdle
    /\ WidIdle
    /\ ConnIdle

NextNodes == NodesParse \/ NodesDedup

SpecNodes == InitNodes /\ [][NextNodes]_vars


\* ------------------------- the two file operations, modes and key path
\* What _add_ssh_config_to_local and _remove_ssh_config_from_local do to
\* the modes of ~/.ssh and ~/.ssh/config ("none": it does not exist), and
\* the IdentityFile the block is written with.  A path is a sequence of its
\* parts and <<>> is no path (None or ''); keys: the user names N for which
\* ~/.ssh holds a readable N_hpc_app_key with its .pub, which is what
\* get_all_existing_users lists.
identity_file_UsersFirst(key_path, keys, username) ==
    IF username \in keys THEN << "~/.ssh/", username, "_hpc_app_key" >>
    ELSE IF key_path # <<>> THEN key_path
    ELSE << "~/.ssh/", username, "_hpc_app_key" >>

identity_file(key_path, keys, username) ==
    LET users == { [username |-> u, key_path |-> << "~/.ssh/", u, "_hpc_app_key" >>] :
                       u \in keys }
        first == IF key_path # <<>> THEN key_path
                 ELSE IF \E user \in users : user.username = username
                 THEN (CHOOSE user \in users : user.username = username).key_path
                 ELSE <<>>
    IN  IF first # <<>> THEN first
        ELSE << "~/.ssh/", username, "_hpc_app_key" >>

\* _add_ssh_config_to_local(job_id, config) when nothing raises: makedirs
\* for a missing directory, read, write, chmod of the file
WrAdd(j, h) ==
    /\ fn.f = "write_config" /\ fn.n < MaxOps
    /\ fn' = [fn EXCEPT !.dir = IF @ = "none" THEN "700" ELSE @,
                        !.text = AddWrite(IF fn.file # "none" THEN @ ELSE <<>>, j, h),
                        !.file = "600",
                        !.identity = identity_file(fn.key_path, fn.keys, fn.username),
                        !.last = "add", !.wrote = TRUE, !.n = @ + 1]
    /\ UNCHANGED fnOff

\* _remove_ssh_config_from_local(job_id): a missing file or no match
\* writes nothing; a match is written back with open(config_file, 'w')
WrRemove(j) ==
    /\ fn.f = "write_config" /\ fn.n < MaxOps
    /\ LET wrote == fn.file # "none" /\ pattern_search(fn.text, j)
       IN  fn' = [fn EXCEPT !.text = IF wrote THEN RemoveWrite(@, j) ELSE @,
                            !.last = "remove", !.wrote = wrote, !.n = @ + 1]
    /\ UNCHANGED fnOff

InitWrite ==
    /\ \E dir \in { "none", "700", "755" }, file \in { "none", "600", "644" },
          text \in { <<>>, << USR, NL >>, new_config(1, 1) },
          key_path \in { <<>>, << "/keys/id_lab" >> },
          keys \in SUBSET { "alice", "bob" } :
         /\ dir = "none" => file = "none"
         /\ file = "none" => text = <<>>
         /\ fn = [f |-> "write_config", dir |-> dir, file |-> file, text |-> text,
                  key_path |-> key_path, keys |-> keys, username |-> "alice",
                  identity |-> <<>>, last |-> "none", wrote |-> FALSE, n |-> 0]
    /\ config_exists = FALSE /\ config_file = <<>>
    /\ HistIdle
    /\ MgrIdle
    /\ ChanIdle
    /\ BudIdle
    /\ WidIdle
    /\ ConnIdle

NextWrite ==
    \/ \E j \in JobIds, h \in 1..MaxNodes : WrAdd(j, h)
    \/ \E j \in JobIds : WrRemove(j)

SpecWrite == InitWrite /\ [][NextWrite]_vars


\* ----------------------------------------- the operations of SlurmManager
\* get_jobs, the loop over the lines squeue printed: a line is stripped, an
\* empty one is skipped, and one with eight fields gives a job record
RECURSIVE get_jobs_StopAtBadLine(_)
get_jobs_StopAtBadLine(lines) ==
    IF lines = <<>> THEN <<>>
    ELSE LET parts == split(strip_line(Head(lines)))
         IN  IF strip_line(Head(lines)) = <<>> THEN get_jobs_StopAtBadLine(Tail(lines))
             ELSE IF Len(parts) = 8
             THEN << [id |-> FieldText(parts[1]), state |-> FieldText(parts[3])] >>
                      \o get_jobs_StopAtBadLine(Tail(lines))
             ELSE <<>>

RECURSIVE get_jobs(_)
get_jobs(lines) ==
    IF lines = <<>> THEN <<>>
    ELSE LET line == strip_line(Head(lines))
             parts == split(line)
         IN  IF line = <<>> THEN get_jobs(Tail(lines))
             ELSE IF Len(parts) = 8
             THEN << [id |-> FieldText(parts[1]), name |-> FieldText(parts[2]),
                      state |-> FieldText(parts[3]), time |-> FieldText(parts[4]),
                      time_limit |-> FieldText(parts[5]), nodes |-> FieldText(parts[6]),
                      cpus |-> FieldText(parts[7]), reason |-> FieldText(parts[8])] >>
                      \o get_jobs(Tail(lines))
             ELSE get_jobs(Tail(lines))

\* a line of squeue -o '%A|%j|%T|%M|%L|%D|%C|%R' -h for one job
SqueueLine(id, name) ==
    << id, Bar >> \o name \o << Bar, "RUNNING", Bar, "0:10", Bar, "50:00", Bar,
                                "1", Bar, "4", Bar, "n1" >>

\* what squeue prints for the user: lines of jobs (one with white space
\* around it, one whose job name holds a bar), a line cut short and a line
\* of white space
SqueueTexts ==
    LET lines == { SqueueLine("1", << "a" >>),
                   << " " >> \o SqueueLine("3", << "c" >>) \o << " " >>,
                   SqueueLine("4", << "d", Bar, "e" >>),
                   << "5", Bar, "f", Bar, "RUNNING" >>, << " " >> }
    IN  UNION { [1..k -> lines] : k \in 0..MaxLines }

\* One call of an operation.  _get_ssh_client: connect succeeds ("ok"),
\* fails before a transport exists ("refused"), or raises once the
\* transport is up (authentication, "auth"), where the client that holds
\* the transport is dropped and paramiko either has closed it or has not
\* (leak).  With a client, the body runs (it may raise) and "finally:
\* client.close()" follows.  open: the transports open after the call.
SlCall(op, link, leak, raises, text) ==
    /\ fn.f = "slurm" /\ fn.n < MaxOps
    /\ (op # "get_jobs" \/ link # "ok" \/ raises) => text = <<>>
    /\ (link # "ok" => ~raises) /\ (leak => link = "auth")
    /\ LET opened == IF link = "ok" \/ leak THEN 1 ELSE 0
           closed == IF link = "ok" THEN 1 ELSE 0
       IN  fn' = [fn EXCEPT !.open = @ + opened - closed,
                            !.op = op, !.conn = link, !.raised = raises,
                            !.text = text,
                            !.jobs = IF op = "get_jobs" /\ link = "ok" /\ ~raises
                                     THEN get_jobs(text) ELSE <<>>,
                            !.n = @ + 1]
    /\ UNCHANGED fnOff

InitSlurm ==
    /\ fn = [f |-> "slurm", open |-> 0, op |-> "none", conn |-> "none",
             raised |-> FALSE, text |-> <<>>, jobs |-> <<>>, n |-> 0]
    /\ config_exists = FALSE /\ config_file = <<>>
    /\ HistIdle
    /\ MgrIdle
    /\ ChanIdle
    /\ BudIdle
    /\ WidIdle
    /\ ConnIdle

NextSlurm ==
    \/ \E text \in SqueueTexts : SlCall("get_jobs", "ok", FALSE, FALSE, text)
    \/ \E op \in { "get_jobs", "get_job_details", "submit_job", "cancel_job",
                   "get_cluster_info", "get_partition_info" },
          link \in { "ok", "refused", "auth" }, leak, raises \in BOOLEAN :
           SlCall(op, link, leak, raises, <<>>)

SpecSlurm == InitSlurm /\ [][NextSlurm]_vars


\* ---------------------------------------------------- the node-data cache
\* NodeStatusManager.data_cache and the two functions that read it.  The
\* node data is the number of the cluster report it was built from with the
\* time of the refresh; NoData is None.  now: time.time(); issued: the
\* remote commands the last call ran; ret: what refresh_all_nodes returned;
\* partitions: what get_nodes_by_partition returned (0: {}); ui: the signal
\* RefreshWorker.run emitted after its call.
RefreshInterval == 120
TickSeconds == 60
MaxTicks == 4

NoData == [report |-> 0, refresh_time |-> 0]

\* "self.data_cache['node_data'] and current_time - last_refresh <
\* refresh_interval"
Fresh == fn.node_data # NoData /\ fn.now - fn.last_refresh < RefreshInterval

\* refresh_all_nodes as RefreshWorker.run calls it; fails: a remote command
\* raises, which the except clause turns into None
refresh_all_nodes(fails) ==
    /\ fn.f = "cache"
    /\ LET node_data == [report |-> fn.cluster, refresh_time |-> fn.now]
           ret == IF Fresh \/ fails THEN NoData ELSE node_data
       IN  fn' = [fn EXCEPT !.op = "refresh_all_nodes",
                            !.fresh = Fresh,
                            !.issued = IF Fresh THEN 0 ELSE 1,
                            !.node_data = IF Fresh \/ fails THEN @ ELSE node_data,
                            !.last_refresh = IF Fresh \/ fails THEN @ ELSE fn.now,
                            !.ret = ret,
                            !.partitions = 0,
                            !.ui = IF ret # NoData THEN "node_data_updated"
                                   ELSE "refresh_error"]
    /\ UNCHANGED fnOff

\* get_nodes_by_partition(): the cached partitions while the cache is
\* fresh, else those of refresh_all_nodes, {} when that returns None
get_nodes_by_partition(fails) ==
    /\ fn.f = "cache"
    /\ LET node_data == [report |-> fn.cluster, refresh_time |-> fn.now]
       IN  fn' = [fn EXCEPT !.op = "get_nodes_by_partition",
                            !.fresh = Fresh,
                            !.issued = IF Fresh THEN 0 ELSE 1,
                            !.node_data = IF Fresh \/ fails THEN @ ELSE node_data,
                            !.last_refresh = IF Fresh \/ fails THEN @ ELSE fn.now,
                            !.ret = NoData,
                            !.partitions = IF Fresh THEN fn.node_data.report
                                           ELSE IF fails THEN 0 ELSE fn.cluster,
                            !.ui = "none"]
    /\ UNCHANGED fnOff

\* time passes
CacheTick ==
    /\ fn.f = "cache"
    /\ fn.now < MaxTicks * TickSeconds
    /\ fn' = [fn EXCEPT !.now = @ + TickSeconds]
    /\ UNCHANGED fnOff

\* the cluster's nodes change state: sinfo will print another report
CacheChange ==
    /\ fn.f = "cache"
    /\ fn' = [fn EXCEPT !.cluster = 3 - @]
    /\ UNCHANGED fnOff

\* after __init__: node_data None, last_refresh 0
InitCache ==
    /\ fn = [f |-> "cache", node_data |-> NoData, last_refresh |-> 0, now |-> 0,
             cluster |-> 1, op |-> "none", fresh |-> FALSE, issued |-> 0,
             ret |-> NoData, partitions |-> 0, ui |-> "none"]
    /\ config_exists = FALSE /\ config_file = <<>>
    /\ HistIdle
    /\ MgrIdle
    /\ ChanIdle
    /\ BudIdle
    /\ WidIdle
    /\ ConnIdle

NextCache ==
    \/ \E fails \in BOOLEAN : refresh_all_nodes(fails)
    \/ \E fails \in BOOLEAN : get_nodes_by_partition(fails)
    \/ CacheTick
    \/ CacheChange

SpecCache == InitCache /\ [][NextCache]_vars


\* ------------------------------------------------------------- claims

\* C9: an upsert for job j strips only the block whose markers embed j: a
\* block that another job id had in the file before the upsert is still
\* there, byte for byte, after it.
C9_UpsertKeepsOtherBlocks ==
    last_op.op = "upsert" =>
        \A k \in JobIds \ { last_op.j } :
            HasBlock(prev_file.text, k) =>
                BlockText(config_file, k) = BlockText(prev_file.text, k)

\* C10: a second upsert with the same job id and endpoint, straight after
\* the first, leaves exactly one block for the job and the file as the
\* first call wrote it.
C10_UpsertIdempotent ==
    (last_op.op = "upsert" /\ prev_op = last_op) =>
        /\ BlockCount(config_file, last_op.j) = 1
        /\ config_file = prev_file.text
        /\ config_exists

\* C10 witness: the same upsert was applied twice in a row to a file that
\* held user text
C10_Witness ==
    /\ last_op.op = "upsert" /\ prev_op = last_op
    /\ \E i \in 1..Len(config_file) : config_file[i] = USR

\* C1: the session-ready event (vscode_config_ready) is emitted at most
\* once for each job id, however long the job stays RUNNING.
C1_ReadyAtMostOnce == \A j \in JobIds : ready_count[j] <= 1

\* C2: once a monitor has stopped because a poll returned a terminal state,
\* the config file holds no block for its job (the monitor removed it).
C2_TerminalRemovesBlock ==
    \A j \in JobIds :
        (mon[j].pc = "done" /\ mon[j].status \in Terminal) =>
            ~HasBlock(config_file, j)

\* cancel_job(j) has sent scancel for the live job j, has removed the block
\* and is back (with True)
CancelledAndBack(j) ==
    /\ sched[j] = "CANCELLED"
    /\ ~(caller.op = "cancel" /\ caller.job = j /\ caller.pc \in { "rm_read", "rm_write" })

\* C3: once cancel_job(j) has returned True and the monitor of j has
\* exited, the config file holds no block for j.
C3_NoBlockAfterCancel ==
    \A j \in JobIds :
        (CancelledAndBack(j) /\ mon[j].pc = "done") => ~HasBlock(config_file, j)

\* C4: a job whose session-ready event has fired and that is neither ended
\* nor cancelled has exactly one block in the config file.
C4_LiveSessionHasBlock ==
    \A j \in JobIds :
        (ready_count[j] > 0 /\ sched[j] \in Live) => BlockCount(config_file, j) = 1

Rank(st) == IF st = "PENDING" THEN 1 ELSE IF st = "RUNNING" THEN 2 ELSE 3

\* C7: the states carried by the status events of a job only move forward
\* (PENDING, RUNNING, terminal), and no event follows a terminal one.
C7_StatusEventsMonotone ==
    \A j \in JobIds :
        Len(status_events[j]) = 2 =>
            /\ Rank(status_events[j][1]) <= Rank(status_events[j][2])
            /\ status_events[j][1] \notin Terminal

\* C8: a cancel_job call that comes back with False has still attempted
\* the removal of the job's block.
C8_CancelAlwaysRemoves ==
    (caller.pc = "return" /\ caller.op = "cancel" /\ caller.ret = "False") =>
        caller.removed

\* threads whose command is in progress on the manager's transport
Executing == { t \in Threads : th[t].pc = "running" }

\* C5: at most one command execution is in progress on a manager's
\* transport at any instant.
C5_OneCommandAtATime == Cardinality(Executing) <= 1

\* C6: no execute_ssh_command call is stuck for good: a thread never waits
\* in connect_ssh for the manager's mutex while holding that mutex itself.
C6_NoSelfDeadlock ==
    \A t \in Threads : ~(Locked /\ th[t].pc = "connect" /\ lock = t)

\* C11: whatever upserts and removes are applied, over whatever job ids,
\* the file holds at most one marker-delimited block for each job id.
C11_AtMostOneBlockPerJob ==
    \A j \in JobIds : BlockCount(config_file, j) <= 1

\* C11 witness: a job's block was written, removed and written again, and
\* the file holds it once
C11_Witness ==
    /\ n_ops = 3
    /\ last_op.op = "upsert"
    /\ prev_op.op = "remove" /\ prev_op.removed /\ prev_op.j = last_op.j
    /\ BlockCount(config_file, last_op.j) = 1

\* C12: a remove for a job id that has no block in the file (the file may
\* be missing, or hold the blocks of other job ids) leaves the file as it
\* was and emits no ssh_config_removed; a second remove for the same job id
\* changes nothing more.
C12_RemoveAbsentIsNoOp ==
    last_op.op = "remove" =>
        /\ (~prev_file.exists \/ ~HasBlock(prev_file.text, last_op.j)) =>
               /\ config_file = prev_file.text
               /\ config_exists = prev_file.exists
               /\ ~last_op.removed
        /\ (prev_op.op = "remove" /\ prev_op.j = last_op.j) =>
               /\ config_file = prev_file.text
               /\ ~last_op.removed

\* C12 witness: the same job id was removed twice in a row from a file that
\* holds the block of another job id
C12_Witness ==
    /\ last_op.op = "remove" /\ prev_op.op = "remove" /\ prev_op.j = last_op.j
    /\ \E k \in JobIds \ { last_op.j } : HasBlock(config_file, k)

\* position i of s lies within a begin/end marker pair (markers included)
InBlock(s, i) ==
    \E b \in 1..i, e \in i..Len(s) :
        /\ s[b].k = "B" /\ s[e].k = "E" /\ s[e].j = s[b].j
        /\ \A m \in (b + 1)..(e - 1) : s[m].k \notin { "B", "E" }

\* the text outside every begin/end marker pair
Outside(s) ==
    LET f[i \in 0..Len(s)] ==
            IF i = 0 THEN <<>>
            ELSE IF InBlock(s, i) THEN f[i - 1]
            ELSE Append(f[i - 1], s[i])
    IN  f[Len(s)]

\* C13: upsert and remove leave the text outside the marker pairs as it
\* was, line breaks included: a remove changes nothing outside the pair it
\* deletes, and an upsert adds nothing but the line break before the begin
\* marker and the one after the end marker of the block it appends.
C13_OutsideTextUntouched ==
    /\ last_op.op = "remove" =>
           Outside(config_file) = Outside(prev_file.text)
    /\ last_op.op = "upsert" =>
           Outside(config_file) = Outside(prev_file.text) \o << NL, NL >>

\* C14: each upsert and each remove is one atomic read-modify-write, so
\* that the outcome is that of some serial order: the content an upsert
\* writes, and the content a remove writes when it rewrites the file, is the
\* operation applied to what the file holds at the moment of the write,
\* whatever the other threads wrote since the operation's read (no lost
\* update, no resurrected block).
C14_AtomicReadModifyWrite ==
    [][ /\ \A j \in JobIds :
             (mon[j].pc = "add_write" /\ mon'[j].pc = "wrote") =>
                 config_file' = AddWrite(IF config_exists THEN config_file ELSE <<>>,
                                         j, mon[j].host)
        /\ (caller.pc = "rm_write" /\ caller'.pc = "return"
                /\ config_file' # config_file) =>
               config_file' = RemoveWrite(config_file, caller.job)
      ]_vars

\* C15: a poll that fails (get_job_status comes back with None after a
\* transport or command error) does not end the monitor: a monitor that
\* has stopped has seen a terminal state or has used up its budget.
C15_FailedPollKeepsMonitor ==
    \A j \in JobIds :
        mon[j].pc = "done" =>
            mon[j].status \in Terminal \/ mon[j].poll_count > PollLimit

\* C16: every monitor stops: poll_job issues at most PollLimit + 1 = 181
\* status polls, _monitor_job_status begins no iteration once 60 minutes
\* have elapsed, and both threads come to their end.
C16_MonitorsStop ==
    /\ [](bud.polls <= PollLimit + 1 \/ bud.kind # "poll_job")
    /\ []((bud.kind = "_monitor_job_status" /\ bud.pc = "squeue") =>
              bud.elapsed < max_wait_time)
    /\ <>(bud.pc = "done")

\* C16 witness: poll_job has stopped after its 181st poll
C16_Witness ==
    /\ bud.kind = "poll_job" /\ bud.pc = "done"
    /\ bud.polls = PollLimit + 1 /\ bud.poll_count = PollLimit + 1

\* C17: a monitor that uses up its budget while the job is still PENDING
\* or RUNNING reports the job as TIMEOUT: the last status event it has
\* emitted when it stops carries TIMEOUT.
C17_BudgetEndEmitsTimeout ==
    (bud.kind = "poll_job" /\ bud.pc = "done" /\ bud.poll_count > PollLimit) =>
        bud.event = "TIMEOUT"

\* C18: a monitor that has stopped because a poll reported a terminal
\* state has emitted a status event carrying that state before stopping:
\* it is the last status event of the job.
C18_TerminalStateEmitted ==
    \A j \in JobIds :
        (mon[j].pc = "done" /\ mon[j].status \in Terminal) =>
            /\ status_events[j] # <<>>
            /\ status_events[j][Len(status_events[j])] = mon[j].status

\* C20: a submit_vscode_job call with a missing billing account ends with
\* the validation error (ValueError) before any connect or remote command
\* is attempted, emits no vscode_job_submitted, starts no monitor, and
\* leaves the manager's state, the scheduler and the config file as they
\* were.
C20_MissingAccountRejected ==
    [][ (\E connected, ack \in BOOLEAN : submit_vscode_job(FALSE, connected, ack)) =>
            /\ caller'.pc = "return" /\ caller'.ret = "ValueError"
            /\ ~caller'.remote
            /\ caller'.submitted = 0
            /\ UNCHANGED << fileVars, sched, config_written_jobs, current_job,
                            mon, status_events, ready_count, chanVars >>
      ]_vars

\* C20 witness: a submit without an account has just been rejected on a
\* manager that has a job and its monitor running
C20_Witness ==
    /\ caller.pc = "return" /\ caller.op = "submit" /\ caller.ret = "ValueError"
    /\ \E j \in JobIds : sched[j] \in Live /\ mon[j].pc = "poll"

\* GPU eligibility of the account and the GPU request disagree
EligibilityDisagrees(account, gpu_type) ==
    account # "" /\ is_requesting_gpu(gpu_type) # is_gpu_account(account)

\* C19: a submit whose account and GPU request disagree on GPU eligibility
\* ends rejected with the validation error, and no remote command was
\* executed between the start of the submit and the rejection.
C19_GpuMismatchRejectedOffline ==
    (wid.pc = "done" /\ EligibilityDisagrees(wid.account, wid.gpu_type)) =>
        wid.outcome = "rejected_gpu" /\ wid.remote = 0

\* C21: a submit_vscode_job call that succeeds emits one job-submitted
\* record, for the job id of the acknowledgment and with the job PENDING,
\* and starts one monitor thread, for that job id: the monitor of that id
\* goes from not started to its first poll, and no other monitor is started
\* or touched (a monitor stays with the job id it was started for).
C21_SubmitStartsOneMonitor ==
    [][ (\E connected, ack \in BOOLEAN : submit_vscode_job(TRUE, connected, ack)
            /\ caller'.ret = "True") =>
            LET j == caller'.job IN
            /\ j \in JobIds
            /\ caller'.submitted = j
            /\ sched[j] = "NONE" /\ sched'[j] = "PENDING"
            /\ mon[j] = NoMon /\ mon'[j] = [NoMon EXCEPT !.pc = "poll"]
            /\ \A k \in JobIds \ { j } : mon'[k] = mon[k] /\ sched'[k] = sched[k]
      ]_vars

\* C21 witness: the second job has just been submitted while the monitor
\* of the first is in its loop
C21_Witness ==
    /\ caller.pc = "return" /\ caller.op = "submit" /\ caller.ret = "True"
    /\ caller.job = 2 /\ caller.submitted = 2
    /\ mon[1].pc \notin { "none", "done" } /\ mon[1].poll_count > 0
    /\ mon[2].pc = "poll"

\* C22: a submit_vscode_job call whose sbatch output holds no
\* acknowledgment with a numeric id, or whose command fails, reports failure
\* (raises), emits no job-submitted record, creates no job and starts no
\* monitor.
C22_NoAckNoJob ==
    [][ (\E connected \in BOOLEAN : submit_vscode_job(TRUE, connected, FALSE)) =>
            /\ caller'.pc = "return" /\ caller'.ret = "Exception"
            /\ caller'.submitted = 0 /\ caller'.job = 0
            /\ UNCHANGED << sched, mon, status_events, ready_count,
                            config_written_jobs, current_job, fileVars >>
      ]_vars

\* C22 witness: the sbatch command was sent and the call has raised,
\* with a free job id left and another job live
C22_Witness ==
    /\ caller.pc = "return" /\ caller.op = "submit" /\ caller.ret = "Exception"
    /\ caller.remote
    /\ \E j \in JobIds : sched[j] = "NONE"
    /\ \E j \in JobIds : sched[j] \in Live

\* thread t is inside the except clause of execute_ssh_command, at its
\* connect_ssh call, and cannot go on: the call needs the manager's mutex,
\* which t itself holds
StuckInHandler(t) ==
    Locked /\ th[t].pc = "connect" /\ th[t].ret_to = "raise" /\ lock = t

\* C23: one execute_ssh_command call runs the remote command at most once
\* and makes at most one reconnect attempt; when the transport or the
\* command fails, that one attempt is made, the command is not run again
\* and the error is raised to the caller (the call does not hang in the
\* attempt).
C23_OneRunOneReconnect ==
    \A t \in Threads :
        /\ th[t].runs <= 1
        /\ th[t].reconn <= 1
        /\ (th[t].pc = "idle" /\ th[t].result = "raised" /\ th[t].runs = 1) =>
               th[t].reconn = 1
        /\ ~StuckInHandler(t)

\* C24: whatever a command leaves on stdout and stderr, the call raises
\* exactly when stderr is not empty and stdout is: in that case the call
\* ends raised (and does not hang on the way), in every other case it has
\* returned stdout as read.
C24_RaiseIffStderrOnly ==
    \A t \in Threads :
        th[t].out # None =>
            IF th[t].err # "" /\ th[t].out = ""
            THEN /\ th[t].pc = "idle" => th[t].result = "raised"
                 /\ ~(Locked /\ th[t].pc = "connect" /\ lock = t)
            ELSE th[t].pc = "idle" /\ th[t].result = th[t].out

\* C25: a manager has at most one live transport at a time, and every live
\* transport is the one of the client self._ssh_client refers to: no
\* second one is opened while one is live, none is left open unreferenced.
C25_OneLiveTransport ==
    /\ Cardinality(LiveTransports) + conn.orphans <= 1
    /\ conn.orphans = 0
    /\ \A c \in LiveTransports : c = conn.ref

\* C26: the monitor does not repeat a status event: two consecutive
\* status events of one job never carry the same state (a poll that finds
\* the state unchanged emits nothing).
C26_NoRepeatedStatusEvent ==
    \A j \in JobIds :
        Len(status_events[j]) = 2 => status_events[j][1] # status_events[j][2]

\* C27: get_job_status, when both commands return.  An empty squeue output
\* makes it ask sacct and return the state of sacct's first line that is
\* no batch/extern step and carries a state field; with no such line it
\* returns CANCELLED, never None.  A squeue row means sacct is not asked.
IsStep(l) == \E i \in 1..Len(l) : l[i] \in { "7.batch", "7.extern" }
Usable(l) == ~IsStep(l) /\ Cardinality({ i \in 1..Len(l) : l[i] = Bar }) >= 2
StateOf(l) ==
    LET b == Min({ i \in 1..Len(l) : l[i] = Bar })
        c == Min({ i \in (b + 1)..Len(l) : l[i] = Bar })
    IN  IF c = Len(l) \/ l[c + 1] = Bar THEN "" ELSE l[c + 1]
AskedSacct == \E i \in 1..Len(fn.issued) : fn.issued[i] = "sacct"
C27_EmptyQueueAsksAccounting ==
    (fn.f = "get_job_status" /\ fn.pc = "done" /\ Len(fn.issued) > 0
        /\ ~fn.squeue.raises) =>
        IF \A i \in 1..Len(fn.squeue.out) : fn.squeue.out[i] = " "
        THEN /\ AskedSacct
             /\ ~fn.sacct.raises =>
                   LET text == fn.sacct.out
                       U == { i \in 1..Len(text) : Usable(text[i]) }
                   IN  /\ fn.ret # NoStatus
                       /\ IF U = {} THEN fn.ret.status = "CANCELLED"
                          ELSE fn.ret.status = StateOf(text[Min(U)])
        ELSE ~AskedSacct
C27_Witness ==
    /\ fn.f = "get_job_status" /\ fn.pc = "done"
    /\ fn.squeue = Prints(<< " " >>)
    /\ fn.sacct = Prints(<< BatchLine, JobLine("FAILED") >>)
    /\ fn.ret.status = "FAILED"

\* C28: a cancel_job whose scancel succeeded has run the removal of the
\* job's block, whether or not the id was in config_written_jobs, and once
\* it has returned the id is not in config_written_jobs.
C28_CancelRemovesAndForgets ==
    (caller.pc = "return" /\ caller.op = "cancel" /\ caller.ret = "True") =>
        caller.removed /\ caller.job \notin config_written_jobs

\* C29: a parsed record of a line whose CPUsState column reads
\* alloc/idle/other/total with alloc + idle + other = total has total_cpus
\* = total and a CPU usage of alloc/total (0 for total 0), and a GPU usage
\* of used/count.
C29_UtilizationRoundTrip ==
    (fn.f = "refresh_all_nodes" /\ fn.pc = "parsed") =>
        \A p \in 1..Len(fn.cluster) :
            LET nf == fn.cluster[p].report[1]
                rec == fn.partition_data[p].node_list[1]
            IN  /\ nf.cpus # <<>> =>
                      /\ rec.total_cpus = nf.cpus[4]
                      /\ rec.cpu_usage_value.num * nf.cpus[4]
                             = nf.cpus[1] * 100 * rec.cpu_usage_value.den
                /\ (fn.cluster[p].name \in GpuNamed /\ nf.gres # <<>>) =>
                      rec.gpu_usage_value.num * nf.gres[2]
                          = nf.gres_used[2] * 100 * rec.gpu_usage_value.den

\* C30: when two parsed records name the same node and only one of them
\* has accelerator data, the node lists refresh_all_nodes produces hold the
\* record with the accelerator data, in either order of the two records.
HasGpuData(rec) == "gpu_count" \in DOMAIN rec /\ rec.gpu_count > 0
InList(rec, list) == \E k \in 1..Len(list) : list[k] = rec
C30_DedupKeepsGpuRecord ==
    (fn.f = "refresh_all_nodes" /\ fn.pc = "done") =>
        LET r1 == fn.partition_data[1].node_list[1]
            r2 == fn.partition_data[2].node_list[1]
        IN  (r1.node_name = r2.node_name /\ HasGpuData(r1) # HasGpuData(r2)) =>
                LET rich == IF HasGpuData(r1) THEN r1 ELSE r2
                IN  InList(rich, fn.gpu_nodes) \/ InList(rich, fn.cpu_nodes)

\* C31: in a record parsed from a line of a GPU partition whose Gres column
\* reads gpu:<type>:<count>, gpu_count is that count, gpu_used is the number
\* of indices the GresUsed column lists, 0 when the list is the token N/A,
\* and gpu_used never exceeds gpu_count.
C31_GpuCountAndUsed ==
    (fn.f = "refresh_all_nodes" /\ fn.pc = "parsed") =>
        \A p \in 1..Len(fn.cluster) :
            LET nf == fn.cluster[p].report[1]
                rec == fn.partition_data[p].node_list[1]
            IN  (fn.cluster[p].name \in GpuNamed /\ nf.gres # <<>>) =>
                    /\ rec.gpu_count = nf.gres[2]
                    /\ rec.gpu_used <= rec.gpu_count
                    /\ nf.gres_used[3] = << "N/A" >> => rec.gpu_used = 0
                    /\ nf.gres_used[3] # << "N/A" >> => rec.gpu_used = nf.gres_used[2]

\* C32: after every write of the config file, by the upsert and by the
\* remove, the file's mode is 0600 and the mode of ~/.ssh is 0700.
C32_ModesTightenedOnWrite ==
    (fn.f = "write_config" /\ fn.wrote) => fn.file = "600" /\ fn.dir = "700"

\* C33: the IdentityFile of a written block is the configured key path
\* when one is set, else the key path of the known account named like the
\* session's user when there is one, else the default path of that user.
C33_KeyPathPriority ==
    (fn.f = "write_config" /\ fn.last = "add") =>
        IF fn.key_path # <<>> THEN fn.identity = fn.key_path
        ELSE IF fn.username \in fn.keys
        THEN \* the key file get_all_existing_users found for that name
             fn.identity = << "~/.ssh/", fn.username, "_hpc_app_key" >>
        ELSE \* expanduser("~/.ssh/<username>_hpc_app_key")
             fn.identity = << "~/.ssh/", fn.username, "_hpc_app_key" >>
C33_Witness ==
    /\ fn.f = "write_config" /\ fn.last = "add"
    /\ fn.key_path = << "/keys/id_lab" >> /\ fn.username \in fn.keys
    /\ fn.identity = << "/keys/id_lab" >>

\* C34: get_jobs returns one record per line of eight fields, in the order
\* of the lines; a blank line and a line with another number of fields are
\* skipped and the lines around them are still parsed.
WellFormed(l) ==
    Cardinality({ i \in 1..Len(l) : l[i] = Bar }) = 7
IdOf(l) == (SelectSeq(l, LAMBDA x : x # " "))[1]
C34_GetJobsSkipsBadLines ==
    (fn.f = "slurm" /\ fn.op = "get_jobs" /\ fn.conn = "ok" /\ ~fn.raised) =>
        LET good == SelectSeq(fn.text, WellFormed)
        IN  /\ Len(fn.jobs) = Len(good)
            /\ \A k \in 1..Len(good) : fn.jobs[k].id = IdOf(good[k])
C34_Witness ==
    /\ fn.f = "slurm" /\ fn.op = "get_jobs"
    /\ fn.text = << SqueueLine("1", << "a" >>), << "5", Bar, "f", Bar, "RUNNING" >>,
                    << " " >> \o SqueueLine("3", << "c" >>) \o << " " >> >>
    /\ Len(fn.jobs) = 2 /\ fn.jobs[1].id = "1" /\ fn.jobs[2].id = "3"

\* C38: every operation of SlurmManager closes the transport it opened
\* before it returns, on success and on every failure: after any calls no
\* transport the manager opened is open.
C38_NoTransportLeftOpen ==
    fn.f = "slurm" => fn.open = 0

\* C35: when vscode_config_ready or ssh_config_added is emitted for a job,
\* the block of that job has been written and is in the config file at
\* that moment; no event follows a write that failed.
C35_ReadyMeansBlockPresent ==
    [][ \A j \in JobIds :
          ready_count'[j] > ready_count[j] =>
              config_exists /\ HasBlock(config_file, j) ]_vars

\* C36: a monitor attempts endpoint resolution, writes a block and emits
\* vscode_config_ready only on a poll whose state is RUNNING and whose
\* poll index is even, so never on two consecutive polls.
C36_ResolutionOnEvenRunningPolls ==
    \A j \in JobIds :
        mon[j].pc \in { "config", "add_read", "add_write", "wrote", "ready" } =>
            mon[j].status = "RUNNING" /\ mon[j].poll_count % 2 = 0
C36_Witness ==
    \E j \in JobIds : mon[j].pc = "config" /\ mon[j].poll_count = 2

\* C37: an attempt at the endpoint that finds none (_parse_vscode_config
\* returns None) writes nothing and lets the iteration go on to the status
\* event; a monitor that has had such an attempt and polls while the
\* scheduler has the job RUNNING goes on, to a new attempt when the poll is
\* an eligible one; and when session-ready is emitted after a failed
\* attempt, the block of the job is in the file.
C37_FailedAttemptIsRetried ==
    [][ \A j \in JobIds :
          /\ (mon[j].pc = "config" /\ mon'[j].pc # "config" /\ mon'[j].host = 0) =>
                 (mon'[j].pc = "emit" /\ UNCHANGED fileVars)
          /\ (mon[j].failed /\ mon[j].pc = "poll" /\ mon'[j].pc # "poll"
                /\ sched[j] = "RUNNING") =>
                 mon'[j].pc = IF mon[j].poll_count % 2 = 0 THEN "config" ELSE "emit"
          /\ (mon[j].failed /\ ready_count'[j] > ready_count[j]) =>
                 (config_exists /\ HasBlock(config_file, j)) ]_vars

\* C39: after a call of refresh_all_nodes made while the cache was fresh,
\* no remote command was issued and the call returned the cached node
\* data; after one made with an empty or old cache, a command was issued
\* and, unless it failed, the cache holds the data the call returned
C39_RefreshUsesCache ==
    (fn.f = "cache" /\ fn.op = "refresh_all_nodes") =>
        IF fn.fresh
        THEN fn.issued = 0 /\ fn.ret = fn.node_data
        ELSE fn.issued > 0 /\ (fn.ret # NoData => fn.ret = fn.node_data)

====
